---- MODULE Spec2Model ----
(***************************************************************************)
(* A model of the bytecode recognizer engine (StateIterator) of            *)
(* src/unnamed/part_001: the driver loop of start(), the instruction       *)
(* executor with one action per opcode handler, the nested scanner         *)
(* engines created by scanner(), and the jump-table dispatchers.           *)
(*                                                                         *)
(* Words of the bytecode image and stack entries are 32-bit values kept in *)
(* their two's-complement reading (-2^31 .. 2^31-1); bit fields are taken  *)
(* with floor division and modulus, which on that reading give the same    *)
(* bits as the JavaScript operators >>, >>> and & used by the source.      *)
(***************************************************************************)
EXTENDS Integers, Sequences, FiniteSets, TLC

\* ------------------------------------------------------------------ bits

P11 == 2048
P16 == 65536
P20 == 1048576
P22 == 4194304
P24 == 16777216
P25 == 33554432
P26 == 67108864
P27 == 134217728
P28 == 268435456

\* (x >> lo) & (width - 1): the bit field of `width` values starting at 2^lo
Field(x, lo, width) == (x \div lo) % width

\* x & (1 << b) != 0, bit given as its power of two
Bit(x, p) == ((x \div p) % 2) = 1

\* the 32-bit word with opcode op (top 4 bits) and 28 operand bits arg
W(op, arg) == (IF op >= 8 THEN op - 16 ELSE op) * P28 + arg

\* (instruction >> 28) & 0xF
Opcode(instruction) == Field(instruction, P28, 16)

\* ------------------------------------------------- masks (@hctoolkit/common)

state_index_mask == P24            \* index field: low 24 bits (as modulus)
instruction_pointer_mask == P24    \* low 24 bits (as modulus)
goto_state_mask == P25
normal_state_mask == P26
skipped_scan_prod == 9009

\* ------------------------------------------------------------ ByteReader

\* bytes of the modelled alphabet
CH_x == 120
CH_y == 121
CH_z == 122
CH_nl == 10
UTF8_LEAD == 195
UTF8_CONT == 169

\* character classes reported by ByteReader.class()
CLASS_SYM == 2
CLASS_ID == 3
CLASS_NL == 5

\* ByteReader.END()
ReaderEND(inp, cursor) == cursor >= Len(inp)

\* ByteReader.offset_at_end(offset)
OffsetAtEnd(inp, offset) == offset >= Len(inp)

\* ByteReader.byte()
ReaderByte(inp, cursor) == IF cursor >= 0 /\ cursor < Len(inp) THEN inp[cursor + 1] ELSE 0

IsLead(inp, cursor) ==
    /\ ReaderByte(inp, cursor) = UTF8_LEAD
    /\ cursor + 1 < Len(inp)
    /\ ReaderByte(inp, cursor + 1) = UTF8_CONT

\* ByteReader.codepoint(): two-byte UTF-8 sequences decode to one codepoint
ReaderCodepoint(inp, cursor) ==
    IF IsLead(inp, cursor)
    THEN (ReaderByte(inp, cursor) % 32) * 64 + (ReaderByte(inp, cursor + 1) % 64)
    ELSE ReaderByte(inp, cursor)

\* ByteReader.codepoint_byte_length()
ReaderCodepointByteLength(inp, cursor) == IF IsLead(inp, cursor) THEN 2 ELSE 1

\* ByteReader.codepoint_length()
ReaderCodepointLength(inp, cursor) == 1

\* ByteReader.class()
ReaderClass(inp, cursor) ==
    LET cp == ReaderCodepoint(inp, cursor) IN
    IF cp = 0 THEN 0
    ELSE IF cp = CH_nl THEN CLASS_NL
    ELSE IF cp \in {CH_x, CH_y, CH_z} THEN CLASS_ID
    ELSE CLASS_SYM

\* ByteReader.next(amount)
ReaderNext(cursor, amount) == cursor + amount

RECURSIVE CountNL(_, _)
CountNL(inp, n) ==
    IF n <= 0 THEN 0
    ELSE (IF n <= Len(inp) /\ inp[n] = CH_nl THEN 1 ELSE 0) + CountNL(inp, n - 1)

\* ByteReader.line_count(): newlines before the cursor
ReaderLineCount(inp, cursor) == CountNL(inp, cursor)

RECURSIVE LastNL(_, _)
LastNL(inp, n) ==
    IF n <= 0 THEN 0
    ELSE IF n <= Len(inp) /\ inp[n] = CH_nl THEN n
    ELSE LastNL(inp, n - 1)

\* ByteReader.line_offset(): offset just past the last newline before the cursor
ReaderLineOffset(inp, cursor) == LastNL(inp, cursor)

\* ----------------------------------------------------------- KernelToken

\* KernelToken.new()
NewToken ==
    [ byte_offset |-> 0, byte_length |-> 0,
      codepoint_offset |-> 0, codepoint_length |-> 0,
      line_number |-> 0, line_offset |-> 0, type |-> 0 ]

\* ----------------------------------------------------------- KernelStack

\* KernelStack.reset(entry_pointer): one entry, accumulator snapshot 0
StackReset(entry_pointer) == << [state |-> entry_pointer, meta |-> 0] >>

\* KernelStack.push_state(state, symbol_accumulator)
PushState(stack, state, acc) == Append(stack, [state |-> state, meta |-> acc])

\* KernelStack.read_state(): the top entry without popping it
ReadState(stack) == IF Len(stack) = 0 THEN 0 ELSE stack[Len(stack)].state

\* KernelStack.swap_state(state): replace the top entry's state in place
SwapState(stack, state) ==
    IF Len(stack) = 0 THEN stack
    ELSE [stack EXCEPT ![Len(stack)].state = state]

\* --------------------------------------------------------------- bounds

\* nesting of scanner engines (an engine, its scanner, that scanner's scanner)
MaxDepth == 3
\* characters of the input
MaxInputLen == 3
MaxDiscriminant == 13

\* --------------------------------------------------------------- engine

\* Uint32Array read; a read outside the image yields undefined, whose bit
\* fields are all zero and which equals no token type
BC(bc, i) == IF i >= 0 /\ i < Len(bc) THEN bc[i + 1] ELSE 0

NoCont ==
    [ kind |-> "none", cur |-> NewToken, target |-> 0, instr |-> 0, index |-> 0,
      ssp |-> 0, start |-> 0, end |-> 0, scan_back |-> FALSE ]

\* StateIterator constructor followed by the prologue of start()
NewEngine(inp, cursor, entry_pointer, SCANNER, tok, root) ==
    LET t0 == IF SCANNER
              THEN [tok EXCEPT !.line_number = ReaderLineCount(inp, cursor),
                               !.line_offset = ReaderLineOffset(inp, cursor)]
              ELSE tok
    IN [ SCANNER |-> SCANNER,
         stack |-> StackReset(entry_pointer),
         tokens |-> << t0, tok >>,
         cursor |-> cursor,
         production_id |-> -1,
         symbol_accumulator |-> 0,
         fail_mode |-> FALSE,
         last_good_state |-> -1,
         root |-> root,
         pc |-> "loop",
         index |-> 0,
         recover_data |-> 0,
         entry |-> entry_pointer,
         cont |-> NoCont,
         em |-> << >> ]

\* emit(): the action is handed to the sink of this engine
Emit(e, action) == [e EXCEPT !.em = Append(@, action)]

\* emitShift() measuring the skipped span in bytes
EmitShift_SkipInBytes(e) ==
    LET token == e.tokens[2]
        prev_token == e.tokens[1]
        e1 == [e EXCEPT !.symbol_accumulator = @ + 1]
        e2 == IF prev_token.byte_offset + prev_token.byte_length # token.byte_offset
              THEN Emit(e1, [ type |-> "SKIP",
                              offset |-> prev_token.codepoint_offset,
                              length |-> token.byte_offset
                                         - (prev_token.byte_length + prev_token.byte_offset),
                              line |-> prev_token.line_number,
                              token_type |-> 0 ])
              ELSE e1
    IN Emit(e2, [type |-> "SHIFT", token |-> token])

\* StateIterator.emitShift
EmitShift(e) ==
    LET token == e.tokens[2]
        prev_token == e.tokens[1]
        e1 == [e EXCEPT !.symbol_accumulator = @ + 1]
        e2 == IF prev_token.byte_offset + prev_token.byte_length # token.byte_offset
              THEN Emit(e1, [ type |-> "SKIP",
                              offset |-> prev_token.codepoint_offset,
                              length |-> token.codepoint_offset
                                         - (prev_token.codepoint_length + prev_token.codepoint_offset),
                              line |-> prev_token.line_number,
                              token_type |-> 0 ])
              ELSE e1
    IN Emit(e2, [type |-> "SHIFT", token |-> token])

\* the advance shared by both branches of consume()
AdvanceToken(token) ==
    [token EXCEPT !.codepoint_offset = token.codepoint_offset + token.codepoint_length,
                  !.byte_offset = token.byte_offset + token.byte_length,
                  !.codepoint_length = 0,
                  !.byte_length = 0,
                  !.type = 0]

\* consume() emitting the Shift once the lookahead has been advanced
Consume_ShiftAfterAdvance(e, instruction) ==
    LET tk == IF Bit(instruction, 1)
              THEN [e.tokens[2] EXCEPT !.codepoint_length = 0, !.byte_length = 0]
              ELSE e.tokens[2]
        e0 == [e EXCEPT !.tokens[2] = AdvanceToken(tk)]
    IN IF e.SCANNER
       THEN [e0 EXCEPT !.cursor = ReaderNext(e.cursor, tk.byte_length)]
       ELSE LET e1 == EmitShift(e0)
            IN [e1 EXCEPT !.cursor = ReaderNext(e.cursor, tk.byte_length),
                          !.tokens[1] = AdvanceToken(tk)]

\* StateIterator.consume
Consume(e, instruction) ==
    LET tk == IF Bit(instruction, 1)
              THEN [e.tokens[2] EXCEPT !.codepoint_length = 0, !.byte_length = 0]
              ELSE e.tokens[2]
        e0 == [e EXCEPT !.tokens[2] = tk]
    IN IF e.SCANNER
       THEN [e0 EXCEPT !.cursor = ReaderNext(e.cursor, tk.byte_length),
                       !.tokens[2] = AdvanceToken(tk)]
       ELSE LET e1 == EmitShift(e0)
            IN [e1 EXCEPT !.cursor = ReaderNext(e.cursor, tk.byte_length),
                          !.tokens[2] = AdvanceToken(tk),
                          !.tokens[1] = AdvanceToken(tk)]

\* StateIterator.set_production
SetProduction(e, instruction) == [e EXCEPT !.production_id = instruction % P28]

\* StateIterator.emitReduce
EmitReduce(e, symbol_length, body_id) ==
    Emit(e, [ type |-> "REDUCE", body |-> body_id, length |-> symbol_length,
              production |-> e.production_id ])

\* reduce() taking the length field from bit 12 instead of bit 16
Reduce_LowLengthField(bc, e, instruction, index, recover_data) ==
    LET body_id == instruction % P16
        length == Field(instruction, 4096, 4096)
        e1 == IF body_id = P16 - 1
              THEN EmitReduce(e, e.symbol_accumulator - (recover_data % P16),
                              Field(instruction, P16, 4096))
              ELSE EmitReduce([e EXCEPT !.symbol_accumulator = @ - (length - 1)],
                              length, body_id)
    IN IF Opcode(BC(bc, index)) = 3
       THEN [SetProduction(e1, BC(bc, index)) EXCEPT !.index = index + 1]
       ELSE [e1 EXCEPT !.index = index]

\* reduce() taking the whole accumulator as the dynamic length
Reduce_NoSnapshot(bc, e, instruction, index, recover_data) ==
    LET body_id == instruction % P16
        length == Field(instruction, P16, 4096)
        e1 == IF body_id = P16 - 1
              THEN EmitReduce(e, e.symbol_accumulator, Field(instruction, P16, 4096))
              ELSE EmitReduce([e EXCEPT !.symbol_accumulator = @ - (length - 1)],
                              length, body_id)
    IN IF Opcode(BC(bc, index)) = 3
       THEN [SetProduction(e1, BC(bc, index)) EXCEPT !.index = index + 1]
       ELSE [e1 EXCEPT !.index = index]

\* reduce() setting the production from the word after it and leaving that
\* word to be executed
Reduce_InlineWordLeft(bc, e, instruction, index, recover_data) ==
    LET body_id == instruction % P16
        length == Field(instruction, P16, 4096)
        e1 == IF body_id = P16 - 1
              THEN EmitReduce(e, e.symbol_accumulator - (recover_data % P16),
                              Field(instruction, P16, 4096))
              ELSE EmitReduce([e EXCEPT !.symbol_accumulator = @ - (length - 1)],
                              length, body_id)
    IN IF Opcode(BC(bc, index)) = 3
       THEN [SetProduction(e1, BC(bc, index)) EXCEPT !.index = index]
       ELSE [e1 EXCEPT !.index = index]

\* reduce() applying the SET_PRODUCTION word behind it before it emits
Reduce_ProductionFirst(bc, e, instruction, index, recover_data) ==
    LET body_id == instruction % P16
        length == Field(instruction, P16, 4096)
        inline == Opcode(BC(bc, index)) = 3
        e0 == IF inline THEN SetProduction(e, BC(bc, index)) ELSE e
        e1 == IF body_id = P16 - 1
              THEN EmitReduce(e0, e0.symbol_accumulator - (recover_data % P16),
                              Field(instruction, P16, 4096))
              ELSE EmitReduce([e0 EXCEPT !.symbol_accumulator = @ - (length - 1)],
                              length, body_id)
    IN [e1 EXCEPT !.index = IF inline THEN index + 1 ELSE index]

\* StateIterator.reduce; the result's index is the returned instruction index
Reduce(bc, e, instruction, index, recover_data) ==
    LET body_id == instruction % P16
        length == Field(instruction, P16, 4096)
        e1 == IF body_id = P16 - 1
              THEN EmitReduce(e, e.symbol_accumulator - (recover_data % P16),
                              Field(instruction, P16, 4096))
              ELSE EmitReduce([e EXCEPT !.symbol_accumulator = @ - (length - 1)],
                              length, body_id)
    IN IF Opcode(BC(bc, index)) = 3
       THEN [SetProduction(e1, BC(bc, index)) EXCEPT !.index = index + 1]
       ELSE [e1 EXCEPT !.index = index]

\* set_token() taking the lookahead's offsets as the lengths of the token
SetToken_AbsoluteLength(e, instruction, index) ==
    LET value == instruction % P24
        e1 == IF Bit(instruction, P24) THEN Consume(e, 0) ELSE e
        e2 == IF Bit(instruction, P27)
              THEN [e1 EXCEPT !.production_id = value,
                              !.tokens[1].type = value,
                              !.tokens[1].byte_length = e1.tokens[2].byte_offset,
                              !.tokens[1].codepoint_length = e1.tokens[2].codepoint_offset]
              ELSE [e1 EXCEPT !.tokens[2].codepoint_length = value,
                              !.tokens[2].byte_length = value]
    IN [e2 EXCEPT !.index = index]

\* set_token() consuming after it has written the token
SetToken_ConsumeAfter(e, instruction, index) ==
    LET value == instruction % P24
        e2 == IF Bit(instruction, P27)
              THEN [e EXCEPT !.production_id = value,
                             !.tokens[1].type = value,
                             !.tokens[1].byte_length =
                                 e.tokens[2].byte_offset - e.tokens[1].byte_offset,
                             !.tokens[1].codepoint_length =
                                 e.tokens[2].codepoint_offset - e.tokens[1].codepoint_offset]
              ELSE [e EXCEPT !.tokens[2].codepoint_length = value,
                             !.tokens[2].byte_length = value]
        e3 == IF Bit(instruction, P24) THEN Consume(e2, 0) ELSE e2
    IN [e3 EXCEPT !.index = index]

\* StateIterator.set_token
SetToken(e, instruction, index) ==
    LET value == instruction % P24
        e1 == IF Bit(instruction, P24) THEN Consume(e, 0) ELSE e
        e2 == IF Bit(instruction, P27)
              THEN [e1 EXCEPT !.production_id = value,
                              !.tokens[1].type = value,
                              !.tokens[1].byte_length =
                                  e1.tokens[2].byte_offset - e1.tokens[1].byte_offset,
                              !.tokens[1].codepoint_length =
                                  e1.tokens[2].codepoint_offset - e1.tokens[1].codepoint_offset]
              ELSE [e1 EXCEPT !.tokens[2].codepoint_length = value,
                              !.tokens[2].byte_length = value]
    IN [e2 EXCEPT !.index = index]

RECURSIVE GotoChain(_, _, _, _)
GotoChain(bc, stack, acc, index) ==
    IF Opcode(BC(bc, index)) = 2
    THEN GotoChain(bc, PushState(stack, BC(bc, index), acc), acc, index + 1)
    ELSE [stack |-> stack, index |-> index]

\* goto() pushing the words of the chain last to first
Goto_ChainReversed(bc, e, instruction, index) ==
    LET r == GotoChain(bc, PushState(e.stack, instruction, e.symbol_accumulator),
                       e.symbol_accumulator, index)
        base == Len(e.stack)
        n == Len(r.stack)
    IN [e EXCEPT !.stack = [k \in 1..n |-> IF k <= base THEN r.stack[k]
                                           ELSE r.stack[n - (k - base) + 1]],
                 !.index = r.index]

\* StateIterator.goto
Goto(bc, e, instruction, index) ==
    LET r == GotoChain(bc, PushState(e.stack, instruction, e.symbol_accumulator),
                       e.symbol_accumulator, index)
    IN [e EXCEPT !.stack = r.stack, !.index = r.index]

\* StateIterator.repeat
Repeat(e, index, instruction) == [e EXCEPT !.index = index - (instruction % P28)]

\* push_fail_state() without the comparison with the top of the stack
PushFailState_AlwaysPush(e, instruction) ==
    [e EXCEPT !.stack = PushState(e.stack, instruction, e.symbol_accumulator)]

\* StateIterator.push_fail_state
PushFailState(e, instruction) ==
    LET current_state == ReadState(e.stack) % instruction_pointer_mask
    IN IF current_state # instruction % instruction_pointer_mask
       THEN [e EXCEPT !.stack = PushState(e.stack, instruction, e.symbol_accumulator)]
       ELSE [e EXCEPT !.stack = SwapState(e.stack, instruction)]

\* StateIterator.try_lazy
TryLazy(e, index, instruction) == [e EXCEPT !.index = index + 2]

\* pass() returning the value that keeps fail mode
Pass_NotRecovered == TRUE

\* StateIterator.pass
Pass == FALSE

\* advanced_return() giving the recovered value when the flag bit is clear
AdvancedReturn_Recovered(instruction, fail_mode) == IF Bit(instruction, 1) THEN fail_mode ELSE FALSE

\* StateIterator.advanced_return
AdvancedReturn(instruction, fail_mode) == IF Bit(instruction, 1) THEN fail_mode ELSE TRUE

\* assert_consume() measuring the lookahead only once the literal has matched
AssertConsume_MeasureOnMatch(inp, e, index, instruction) ==
    LET mode == Field(instruction, P24, 16)
        val == instruction % P24
        cpbl == ReaderCodepointByteLength(inp, e.cursor)
        cpl == ReaderCodepointLength(inp, e.cursor)
        e1 == IF mode \in {0, 1}
              THEN [e EXCEPT !.tokens[2].byte_length = cpbl,
                             !.tokens[2].codepoint_length = cpl]
              ELSE IF mode = 2
              THEN [e EXCEPT !.tokens[2].byte_length = 1,
                             !.tokens[2].codepoint_length = 1]
              ELSE e
        mismatch == \/ mode = 0 /\ val # ReaderClass(inp, e.cursor)
                    \/ mode = 1 /\ val # ReaderCodepoint(inp, e.cursor)
                    \/ mode = 2 /\ val # ReaderByte(inp, e.cursor)
    IN IF mismatch
       THEN [e EXCEPT !.index = 2]
       ELSE [Consume(e1, 0) EXCEPT !.index = index]

\* assert_consume() going on two words further after a mismatch
AssertConsume_SkipTwo(inp, e, index, instruction) ==
    LET mode == Field(instruction, P24, 16)
        val == instruction % P24
        cpbl == ReaderCodepointByteLength(inp, e.cursor)
        cpl == ReaderCodepointLength(inp, e.cursor)
        e1 == IF mode \in {0, 1}
              THEN [e EXCEPT !.tokens[2].byte_length = cpbl,
                             !.tokens[2].codepoint_length = cpl]
              ELSE IF mode = 2
              THEN [e EXCEPT !.tokens[2].byte_length = 1,
                             !.tokens[2].codepoint_length = 1]
              ELSE e
        mismatch == \/ mode = 0 /\ val # ReaderClass(inp, e.cursor)
                    \/ mode = 1 /\ val # ReaderCodepoint(inp, e.cursor)
                    \/ mode = 2 /\ val # ReaderByte(inp, e.cursor)
    IN IF mismatch
       THEN [e1 EXCEPT !.index = index + 2]
       ELSE [Consume(e1, 0) EXCEPT !.index = index]

\* assert_consume() consuming nothing after a match
AssertConsume_ZeroLength(inp, e, index, instruction) ==
    LET mode == Field(instruction, P24, 16)
        val == instruction % P24
        cpbl == ReaderCodepointByteLength(inp, e.cursor)
        cpl == ReaderCodepointLength(inp, e.cursor)
        e1 == IF mode \in {0, 1}
              THEN [e EXCEPT !.tokens[2].byte_length = cpbl,
                             !.tokens[2].codepoint_length = cpl]
              ELSE IF mode = 2
              THEN [e EXCEPT !.tokens[2].byte_length = 1,
                             !.tokens[2].codepoint_length = 1]
              ELSE e
        mismatch == \/ mode = 0 /\ val # ReaderClass(inp, e.cursor)
                    \/ mode = 1 /\ val # ReaderCodepoint(inp, e.cursor)
                    \/ mode = 2 /\ val # ReaderByte(inp, e.cursor)
    IN IF mismatch
       THEN [e1 EXCEPT !.index = 2]
       ELSE [Consume(e1, 1) EXCEPT !.index = index]

\* StateIterator.assert_consume
AssertConsume(inp, e, index, instruction) ==
    LET mode == Field(instruction, P24, 16)
        val == instruction % P24
        cpbl == ReaderCodepointByteLength(inp, e.cursor)
        cpl == ReaderCodepointLength(inp, e.cursor)
        e1 == IF mode \in {0, 1}
              THEN [e EXCEPT !.tokens[2].byte_length = cpbl,
                             !.tokens[2].codepoint_length = cpl]
              ELSE IF mode = 2
              THEN [e EXCEPT !.tokens[2].byte_length = 1,
                             !.tokens[2].codepoint_length = 1]
              ELSE e
        mismatch == \/ mode = 0 /\ val # ReaderClass(inp, e.cursor)
                    \/ mode = 1 /\ val # ReaderCodepoint(inp, e.cursor)
                    \/ mode = 2 /\ val # ReaderByte(inp, e.cursor)
    IN IF mismatch
       THEN [e1 EXCEPT !.index = 2]
       ELSE [Consume(e1, 0) EXCEPT !.index = index]

\* ByteReader.setCursorTo(token): false when the token starts beyond the input
SetCursorOk(inp, token) == token.byte_offset <= Len(inp)

\* StateIterator.get_input_value. The result holds the engine after the
\* token bookkeeping, and either the discriminant (call = FALSE) or the
\* index of the token that scanner() is asked to resolve (call = TRUE), in
\* which case the discriminant is the type of the resolved token.
GetInputValue(inp, e, input_type, token_transition) ==
    IF input_type > 0
    THEN IF token_transition = 1
         THEN \* set next peek lexer
              LET token == e.tokens[Len(e.tokens)]
                  cur == ReaderNext(e.cursor, token.byte_length)
                  e1 == [e EXCEPT !.cursor = cur]
              IN IF ReaderEND(inp, cur)
                 THEN [e |-> e1, value |-> 0, call |-> FALSE, target |-> 0]
                 ELSE LET nt == [token EXCEPT !.type = 0,
                                              !.byte_offset = token.byte_offset + token.byte_length]
                          n == Len(e.tokens) + 1
                          e2 == [e1 EXCEPT !.tokens = Append(@, nt)]
                          e3 == [e2 EXCEPT !.tokens[n].byte_length = ReaderCodepointByteLength(inp, cur),
                                           !.tokens[n].codepoint_length = ReaderCodepointLength(inp, cur)]
                          e4 == [e2 EXCEPT !.tokens[n].byte_length = 1,
                                           !.tokens[n].codepoint_length = 1]
                      IN CASE input_type = 1 -> [e |-> e2, value |-> 0, call |-> TRUE, target |-> n]
                           [] input_type = 2 -> [e |-> e3, value |-> ReaderClass(inp, cur), call |-> FALSE, target |-> 0]
                           [] input_type = 3 -> [e |-> e3, value |-> ReaderCodepoint(inp, cur), call |-> FALSE, target |-> 0]
                           [] input_type = 4 -> [e |-> e4, value |-> ReaderByte(inp, cur), call |-> FALSE, target |-> 0]
                           [] OTHER -> [e |-> e2, value |-> 0, call |-> FALSE, target |-> 0]
         ELSE \* set primary lexer
              IF ReaderEND(inp, e.cursor)
              THEN [e |-> e, value |-> 1, call |-> FALSE, target |-> 0]
              ELSE LET token == e.tokens[2]
                       trunc == Len(e.tokens) > 2
                       bad == trunc /\ ~SetCursorOk(inp, token)
                       cur == IF trunc /\ ~bad THEN token.byte_offset ELSE e.cursor
                       e1 == IF trunc
                             THEN [e EXCEPT !.tokens = << e.tokens[1],
                                                          IF bad THEN token ELSE [token EXCEPT !.type = 0] >>,
                                            !.cursor = cur]
                             ELSE e
                       e3 == [e1 EXCEPT !.tokens[2].byte_length = ReaderCodepointByteLength(inp, cur),
                                        !.tokens[2].codepoint_length = ReaderCodepointLength(inp, cur)]
                       e4 == [e1 EXCEPT !.tokens[2].byte_length = 1,
                                        !.tokens[2].codepoint_length = 1]
                   IN IF bad
                      THEN [e |-> e1, value |-> 0, call |-> FALSE, target |-> 0]
                      ELSE CASE input_type = 1 -> [e |-> e1, value |-> 0, call |-> TRUE, target |-> 2]
                             [] input_type = 2 -> [e |-> e3, value |-> ReaderClass(inp, cur), call |-> FALSE, target |-> 0]
                             [] input_type = 3 -> [e |-> e3, value |-> ReaderCodepoint(inp, cur), call |-> FALSE, target |-> 0]
                             [] input_type = 4 -> [e |-> e4, value |-> ReaderByte(inp, cur), call |-> FALSE, target |-> 0]
                             [] OTHER -> [e |-> e1, value |-> 0, call |-> FALSE, target |-> 0]
    ELSE \* production id input
         [e |-> e, value |-> e.production_id, call |-> FALSE, target |-> 0]

\* the probe loop of hash_jump: cells are followed by their signed step until
\* a cell holds the value or has step zero. A probe that revisits a cell
\* never ends; it is reported as -1.
RECURSIVE HashProbe(_, _, _, _, _, _)
HashProbe(bc, hash_table_start, instruction_field_start, instruction_field_size, input_value, st) ==
    LET hash_index == st.hash_index
        cell == BC(bc, hash_table_start + hash_index)
        value == cell % P11
        next == Field(cell, P22, 1024) - 512
    IN IF value = input_value
       THEN instruction_field_start + Field(cell, P11, P11)
       ELSE IF next = 0
       THEN instruction_field_size + instruction_field_start
       ELSE IF hash_index + next \in st.seen
       THEN -1
       ELSE HashProbe(bc, hash_table_start, instruction_field_start, instruction_field_size,
                      input_value,
                      [hash_index |-> hash_index + next, seen |-> st.seen \cup {hash_index}])

\* hash_jump() probing from the first cell of the table
HashJumpTarget_ProbeFromFirstCell(bc, index, instruction, input_value) ==
    LET table_data == BC(bc, index + 1)
        table_size == table_data % P16
        hash_table_start == index + 2
        instruction_field_start == hash_table_start + table_size
        instruction_field_size == instruction % P16
    IN HashProbe(bc, hash_table_start, instruction_field_start, instruction_field_size,
                 input_value, [hash_index |-> 0, seen |-> {}])

\* hash_jump after its discriminant is known: the returned instruction index
HashJumpTarget(bc, index, instruction, input_value) ==
    LET table_data == BC(bc, index + 1)
        modulus == (2 ^ Field(table_data, P16, P16)) - 1
        table_size == table_data % P16
        hash_table_start == index + 2
        instruction_field_start == hash_table_start + table_size
        instruction_field_size == instruction % P16
    IN HashProbe(bc, hash_table_start, instruction_field_start, instruction_field_size,
                 input_value,
                 [hash_index |-> input_value % (modulus + 1), seen |-> {}])

\* index_jump() without the row of the default block in front of the rows
IndexJumpTarget_NoDefaultRow(bc, index, instruction, discriminant) ==
    LET table_data == BC(bc, index + 1)
        basis__ == instruction % P16
        input_value == discriminant - basis__
        number_of_rows == table_data \div P16
        row_size == table_data % P16
    IN IF input_value >= 0 /\ input_value < number_of_rows
       THEN index + 2 + input_value * row_size
       ELSE index + 2

\* index_jump() admitting the value that equals the number of rows
IndexJumpTarget_InclusiveBound(bc, index, instruction, discriminant) ==
    LET table_data == BC(bc, index + 1)
        basis__ == instruction % P16
        input_value == discriminant - basis__
        number_of_rows == table_data \div P16
        row_size == table_data % P16
    IN IF input_value >= 0 /\ input_value <= number_of_rows
       THEN index + 2 + input_value * row_size + row_size
       ELSE index + 2

\* index_jump after its discriminant is known: the returned instruction index
IndexJumpTarget(bc, index, instruction, discriminant) ==
    LET table_data == BC(bc, index + 1)
        basis__ == instruction % P16
        input_value == discriminant - basis__
        number_of_rows == table_data \div P16
        row_size == table_data % P16
    IN IF input_value >= 0 /\ input_value < number_of_rows
       THEN index + 2 + input_value * row_size + row_size
       ELSE index + 2

\* ((instruction >> 22) & 0x7) and ((instruction >> 26) & 0x3)
InputType(instruction) == Field(instruction, P22, 8)
LexerType(instruction) == Field(instruction, P26, 4)

\* --------------------------------------------------------------- images

\* Token types assigned by the scanner regions: 2 = x, 3 = y, 4 = e-acute;
\* 9009 is the skipped production (newline). Words 0..2 of every image are the
\* null block and the fail blocks that handlers return to by absolute address.

\* The grammar A -> 'x' 'y' with inline literal matches (ASSERT_CONSUME).
\* Entry S0 (address 3); the production id of A is 1.
IMG_XY_ASSERT ==
    <<
       W(0, 0),                             \*  0 PASS (null block)
       W(15, 0),                            \*  1 RETURN: fail
       W(15, 0),                            \*  2 RETURN: fail
       W(14, P24 + 120),                    \*  3 S0: ASSERT_CONSUME codepoint 120
       W(14, P24 + 121),                    \*  4 ASSERT_CONSUME codepoint 121
       W(4, 2 * P16),                       \*  5 REDUCE length 2 rule 0
       W(3, 1),                             \*  6 SET_PRODUCTION 1
       W(0, 0)                              \*  7 PASS
    >>

\* The grammar A -> 'x' 'y' with one state per symbol and dense dispatch on the
\* next byte (INDEX_JUMP, GOTO). Entry S0 (address 3); the production id of A is 1.
IMG_XY_INDEX ==
    <<
       W(0, 0),                             \*  0 PASS (null block)
       W(15, 0),                            \*  1 RETURN: fail
       W(15, 0),                            \*  2 RETURN: fail
       W(9, P24 + 120),                     \*  3 S0: INDEX_JUMP byte (basis 120)
       W(0, 0),                             \*  4 scanner pointer: none
       W(0, 1 * P16 + 3),                   \*  5 table_data: 1 rows of 3 words
       W(15, 0),                            \*  6 RETURN: fail
       W(0, 0),                             \*  7 (padding)
       W(0, 0),                             \*  8 (padding)
       W(1, 0),                             \*  9 CONSUME
       W(2, P26 + 12),                      \* 10 GOTO S1
       W(0, 0),                             \* 11 PASS
       W(9, P24 + 121),                     \* 12 S1: INDEX_JUMP byte (basis 121)
       W(0, 0),                             \* 13 scanner pointer: none
       W(0, 1 * P16 + 4),                   \* 14 table_data: 1 rows of 4 words
       W(15, 0),                            \* 15 RETURN: fail
       W(0, 0),                             \* 16 (padding)
       W(0, 0),                             \* 17 (padding)
       W(0, 0),                             \* 18 (padding)
       W(1, 0),                             \* 19 CONSUME
       W(4, 2 * P16),                       \* 20 REDUCE length 2 rule 0
       W(3, 1),                             \* 21 SET_PRODUCTION 1
       W(0, 0)                              \* 22 PASS
    >>

\* The grammar L -> ( tk:x | E )(+), E -> tk:e-acute, over scanner-resolved tokens,
\* newlines skipped by the scanner. Entry E0 (address 3) pushes the list state and
\* the state that reduces the list with a dynamic-length REDUCE. Scanner entry SC0.
IMG_LIST ==
    <<
       W(0, 0),                             \*  0 PASS (null block)
       W(15, 0),                            \*  1 RETURN: fail
       W(15, 0),                            \*  2 RETURN: fail
       W(2, P26 + 22),                      \*  3 E0: GOTO P_end
       W(2, P26 + 6),                       \*  4 GOTO P_list
       W(0, 0),                             \*  5 PASS
       W(10, 1 * P22 + 6),                  \*  6 P_list: HASH_JUMP token (field size 6)
       W(0, P26 + 25),                      \*  7 scanner pointer -> SC0
       W(0, 1 * P16 + 2),                   \*  8 table_data: modulus bits 1, 2 cells
       W(8, 1 * P22 + 2),                   \*  9 cell: value 2, instruction offset 0, step 1
       W(8, 6148),                          \* 10 cell: value 4, instruction offset 3, step 0
       W(1, 0),                             \* 11 CONSUME
       W(2, P26 + 6),                       \* 12 GOTO P_list
       W(0, 0),                             \* 13 PASS
       W(2, P26 + 6),                       \* 14 GOTO P_list
       W(2, P26 + 18),                      \* 15 GOTO P_e
       W(0, 0),                             \* 16 PASS
       W(0, 0),                             \* 17 PASS
       W(1, 0),                             \* 18 P_e: CONSUME
       W(4, 3 * P16 + 65535),               \* 19 REDUCE dynamic, rule 3
       W(3, 2),                             \* 20 SET_PRODUCTION 2
       W(0, 0),                             \* 21 PASS
       W(4, 5 * P16 + 65535),               \* 22 P_end: REDUCE dynamic, rule 5
       W(3, 7),                             \* 23 SET_PRODUCTION 7
       W(0, 0),                             \* 24 PASS
       W(10, 3 * P22 + 12),                 \* 25 SC0: HASH_JUMP codepoint (field size 12)
       W(0, 0),                             \* 26 scanner pointer: none
       W(0, 2 * P16 + 4),                   \* 27 table_data: modulus bits 2, 4 cells
       W(8, 6264),                          \* 28 cell: value 120, instruction offset 3, step 0
       W(8, 2 * P22 + 12409),               \* 29 cell: value 121, instruction offset 6, step 2
       W(8, 10),                            \* 30 cell: value 10, instruction offset 0, step 0
       W(8, 18665),                         \* 31 cell: value 233, instruction offset 9, step 0
       W(1, 0),                             \* 32 CONSUME
       W(5, P27 + 9009),                    \* 33 SET_TOKEN type 9009
       W(0, 0),                             \* 34 PASS
       W(1, 0),                             \* 35 CONSUME
       W(5, P27 + 2),                       \* 36 SET_TOKEN type 2
       W(0, 0),                             \* 37 PASS
       W(1, 0),                             \* 38 CONSUME
       W(5, P27 + 3),                       \* 39 SET_TOKEN type 3
       W(0, 0),                             \* 40 PASS
       W(1, 0),                             \* 41 CONSUME
       W(5, P27 + 4),                       \* 42 SET_TOKEN type 4
       W(0, 0),                             \* 43 PASS
       W(15, 0)                             \* 44 RETURN: fail
    >>

\* The grammar A -> 'x' 'y' with a declared recovery block: S0 (address 3) pushes
\* the fail state R, matches x and goes on to S_y (match y) and S_red (reduce).
\* R shifts one byte and retries S0, or gives up at end of input.
IMG_RECOVER ==
    <<
       W(0, 0),                             \*  0 PASS (null block)
       W(15, 0),                            \*  1 RETURN: fail
       W(15, 0),                            \*  2 RETURN: fail
       W(11, P27 + 13),                     \*  3 S0: PUSH_FAIL_STATE R
       W(14, P24 + 120),                    \*  4 ASSERT_CONSUME codepoint 120
       W(2, P26 + 10),                      \*  5 GOTO S_red
       W(2, P26 + 8),                       \*  6 GOTO S_y
       W(0, 0),                             \*  7 PASS
       W(14, P24 + 121),                    \*  8 S_y: ASSERT_CONSUME codepoint 121
       W(0, 0),                             \*  9 PASS
       W(4, 2 * P16),                       \* 10 S_red: REDUCE length 2 rule 0
       W(3, 1),                             \* 11 SET_PRODUCTION 1
       W(0, 0),                             \* 12 PASS
       W(9, P24 + 1),                       \* 13 R: INDEX_JUMP byte (1 at end of input) (basis 1)
       W(0, 0),                             \* 14 scanner pointer: none
       W(0, 1 * P16 + 3),                   \* 15 table_data: 1 rows of 3 words
       W(1, 0),                             \* 16 CONSUME
       W(2, P26 + 3),                       \* 17 GOTO S0
       W(0, 0),                             \* 18 PASS
       W(15, 0),                            \* 19 RETURN: fail
       W(0, 0),                             \* 20 (padding)
       W(0, 0)                              \* 21 (padding)
    >>

\* The grammar B -> tk:x tk:y | tk:x tk:x decided by peeking past the lookahead
\* (peek lexer), then re-read by the primary lexer. Entry P0 (address 3).
\* Scanner entry SC0.
IMG_PEEK ==
    <<
       W(0, 0),                             \*  0 PASS (null block)
       W(15, 0),                            \*  1 RETURN: fail
       W(15, 0),                            \*  2 RETURN: fail
       W(10, 1 * P22 + 6),                  \*  3 P0: HASH_JUMP token (field size 6)
       W(0, P26 + 55),                      \*  4 scanner pointer -> SC0
       W(0, 1 * P16 + 2),                   \*  5 table_data: modulus bits 1, 2 cells
       W(8, 2),                             \*  6 cell: value 2, instruction offset 0, step 0
       W(8, 4099),                          \*  7 cell: value 3, instruction offset 2, step 0
       W(2, P26 + 15),                      \*  8 GOTO P1
       W(0, 0),                             \*  9 PASS
       W(1, 0),                             \* 10 CONSUME
       W(4, 1 * P16 + 4),                   \* 11 REDUCE length 1 rule 4
       W(3, 3),                             \* 12 SET_PRODUCTION 3
       W(0, 0),                             \* 13 PASS
       W(15, 0),                            \* 14 RETURN: fail
       W(10, P26 + 1 * P22 + 4),            \* 15 P1: HASH_JUMP peeked token (field size 4)
       W(0, P26 + 55),                      \* 16 scanner pointer -> SC0
       W(0, 1 * P16 + 2),                   \* 17 table_data: modulus bits 1, 2 cells
       W(8, 4098),                          \* 18 cell: value 2, instruction offset 2, step 0
       W(8, 3),                             \* 19 cell: value 3, instruction offset 0, step 0
       W(2, P26 + 25),                      \* 20 GOTO P2
       W(0, 0),                             \* 21 PASS
       W(2, P26 + 34),                      \* 22 GOTO P3
       W(0, 0),                             \* 23 PASS
       W(15, 0),                            \* 24 RETURN: fail
       W(9, 1 * P22 + 2),                   \* 25 P2: INDEX_JUMP token (basis 2)
       W(0, P26 + 55),                      \* 26 scanner pointer -> SC0
       W(0, 1 * P16 + 3),                   \* 27 table_data: 1 rows of 3 words
       W(15, 0),                            \* 28 RETURN: fail
       W(0, 0),                             \* 29 (padding)
       W(0, 0),                             \* 30 (padding)
       W(1, 0),                             \* 31 CONSUME
       W(2, P26 + 41),                      \* 32 GOTO P4
       W(0, 0),                             \* 33 PASS
       W(9, P26 + 2 * P22 + 3),             \* 34 P3: INDEX_JUMP class of the second peek (basis 3)
       W(0, 0),                             \* 35 scanner pointer: none
       W(0, 1 * P16 + 2),                   \* 36 table_data: 1 rows of 2 words
       W(2, P26 + 25),                      \* 37 GOTO P2
       W(0, 0),                             \* 38 PASS
       W(2, P26 + 25),                      \* 39 GOTO P2
       W(0, 0),                             \* 40 PASS
       W(10, 1 * P22 + 8),                  \* 41 P4: HASH_JUMP token (field size 8)
       W(0, P26 + 55),                      \* 42 scanner pointer -> SC0
       W(0, 1 * P16 + 2),                   \* 43 table_data: modulus bits 1, 2 cells
       W(8, 8194),                          \* 44 cell: value 2, instruction offset 4, step 0
       W(8, 3),                             \* 45 cell: value 3, instruction offset 0, step 0
       W(1, 0),                             \* 46 CONSUME
       W(4, 2 * P16),                       \* 47 REDUCE length 2 rule 0
       W(3, 3),                             \* 48 SET_PRODUCTION 3
       W(0, 0),                             \* 49 PASS
       W(1, 0),                             \* 50 CONSUME
       W(4, 2 * P16 + 1),                   \* 51 REDUCE length 2 rule 1
       W(3, 3),                             \* 52 SET_PRODUCTION 3
       W(0, 0),                             \* 53 PASS
       W(15, 0),                            \* 54 RETURN: fail
       W(10, 3 * P22 + 12),                 \* 55 SC0: HASH_JUMP codepoint (field size 12)
       W(0, 0),                             \* 56 scanner pointer: none
       W(0, 2 * P16 + 4),                   \* 57 table_data: modulus bits 2, 4 cells
       W(8, 6264),                          \* 58 cell: value 120, instruction offset 3, step 0
       W(8, 2 * P22 + 12409),               \* 59 cell: value 121, instruction offset 6, step 2
       W(8, 10),                            \* 60 cell: value 10, instruction offset 0, step 0
       W(8, 18665),                         \* 61 cell: value 233, instruction offset 9, step 0
       W(1, 0),                             \* 62 CONSUME
       W(5, P27 + 9009),                    \* 63 SET_TOKEN type 9009
       W(0, 0),                             \* 64 PASS
       W(1, 0),                             \* 65 CONSUME
       W(5, P27 + 2),                       \* 66 SET_TOKEN type 2
       W(0, 0),                             \* 67 PASS
       W(1, 0),                             \* 68 CONSUME
       W(5, P27 + 3),                       \* 69 SET_TOKEN type 3
       W(0, 0),                             \* 70 PASS
       W(1, 0),                             \* 71 CONSUME
       W(5, P27 + 4),                       \* 72 SET_TOKEN type 4
       W(0, 0),                             \* 73 PASS
       W(15, 0)                             \* 74 RETURN: fail
    >>

\* States exercising SCAN_TO (forward and backward), FORK, TRY_LAZY, REPEAT,
\* NOOP, RETURN with its flag, SET_TOKEN lengths and production dispatch.
\* Entry M0 (address 3). Scanner entry SC0; SCW scans a run of x with REPEAT.
IMG_MISC ==
    <<
       W(0, 0),                             \*  0 PASS (null block)
       W(15, 0),                            \*  1 RETURN: fail
       W(15, 0),                            \*  2 RETURN: fail
       W(2, P26 + 39),                      \*  3 M0: GOTO M_fork
       W(2, P26 + 32),                      \*  4 GOTO M_prod
       W(2, P26 + 23),                      \*  5 GOTO M_back
       W(2, P26 + 19),                      \*  6 GOTO M_scan
       W(2, P26 + 9),                       \*  7 GOTO M_word
       W(0, 0),                             \*  8 PASS
       W(10, 1 * P22 + 5),                  \*  9 M_word: HASH_JUMP token (word scanner) (field size 5)
       W(0, P26 + 40),                      \* 10 scanner pointer -> SCW
       W(0, 1),                             \* 11 table_data: modulus bits 0, 1 cells
       W(8, 2),                             \* 12 cell: value 2, instruction offset 0, step 0
       W(1, 0),                             \* 13 CONSUME
       W(13, 0),                            \* 14 TRY_LAZY
       W(0, 0),                             \* 15 sentinel open
       W(0, 0),                             \* 16 sentinel close
       W(15, 1),                            \* 17 RETURN: fail_mode unchanged
       W(15, 1),                            \* 18 RETURN: fail_mode unchanged
       W(7, 1),                             \* 19 M_scan: SCAN_TO forward, 1 target
       W(0, P26 + 54),                      \* 20 scanner pointer -> SC0
       W(0, 3),                             \* 21 target: token y
       W(0, 0),                             \* 22 PASS
       W(7, 16 * P16 + 2),                  \* 23 M_back: SCAN_TO backward, 2 targets
       W(0, P26 + 54),                      \* 24 scanner pointer -> SC0
       W(0, 3),                             \* 25 target: token y
       W(0, 4),                             \* 26 target: token e-acute
       W(5, 1),                             \* 27 SET_TOKEN lookahead length 1
       W(1, 0),                             \* 28 CONSUME
       W(4, 1 * P16 + 6),                   \* 29 REDUCE length 1 rule 6
       W(3, 1),                             \* 30 SET_PRODUCTION 1
       W(0, 0),                             \* 31 PASS
       W(8, 1),                             \* 32 M_prod: NOOP (dispatched as INDEX_JUMP) production (basis 1)
       W(0, 0),                             \* 33 scanner pointer: none
       W(0, 1 * P16 + 2),                   \* 34 table_data: 1 rows of 2 words
       W(3, 9),                             \* 35 SET_PRODUCTION 9
       W(0, 0),                             \* 36 PASS
       W(3, 8),                             \* 37 SET_PRODUCTION 8
       W(0, 0),                             \* 38 PASS
       W(6, 0),                             \* 39 M_fork: FORK
       W(10, 3 * P22 + 9),                  \* 40 SCW: HASH_JUMP codepoint (field size 9)
       W(0, 0),                             \* 41 scanner pointer: none
       W(0, 1),                             \* 42 table_data: modulus bits 0, 1 cells
       W(8, 120),                           \* 43 cell: value 120, instruction offset 0, step 0
       W(1, 0),                             \* 44 CONSUME
       W(10, 3 * P22 + 2),                  \* 45 HASH_JUMP codepoint (field size 2)
       W(0, 0),                             \* 46 scanner pointer: none
       W(0, 1),                             \* 47 table_data: modulus bits 0, 1 cells
       W(8, 120),                           \* 48 cell: value 120, instruction offset 0, step 0
       W(1, 0),                             \* 49 CONSUME
       W(12, 6),                            \* 50 REPEAT back 6
       W(5, P27 + 2),                       \* 51 SET_TOKEN type 2
       W(0, 0),                             \* 52 PASS
       W(15, 0),                            \* 53 RETURN: fail
       W(10, 3 * P22 + 12),                 \* 54 SC0: HASH_JUMP codepoint (field size 12)
       W(0, 0),                             \* 55 scanner pointer: none
       W(0, 2 * P16 + 4),                   \* 56 table_data: modulus bits 2, 4 cells
       W(8, 6264),                          \* 57 cell: value 120, instruction offset 3, step 0
       W(8, 2 * P22 + 12409),               \* 58 cell: value 121, instruction offset 6, step 2
       W(8, 10),                            \* 59 cell: value 10, instruction offset 0, step 0
       W(8, 18665),                         \* 60 cell: value 233, instruction offset 9, step 0
       W(1, 0),                             \* 61 CONSUME
       W(5, P27 + 9009),                    \* 62 SET_TOKEN type 9009
       W(0, 0),                             \* 63 PASS
       W(1, 0),                             \* 64 CONSUME
       W(5, P27 + 2),                       \* 65 SET_TOKEN type 2
       W(0, 0),                             \* 66 PASS
       W(1, 0),                             \* 67 CONSUME
       W(5, P27 + 3),                       \* 68 SET_TOKEN type 3
       W(0, 0),                             \* 69 PASS
       W(1, 0),                             \* 70 CONSUME
       W(5, P27 + 4),                       \* 71 SET_TOKEN type 4
       W(0, 0),                             \* 72 PASS
       W(15, 0)                             \* 73 RETURN: fail
    >>

\* Blocks for single instructions and their flag bits. O_zero (address 3):
\* CONSUME with and without the zero-length flag. O_ret: PUSH_FAIL_STATE
\* repeated with one target, RETURN without its flag, then the fail states
\* F_keep (RETURN with its flag) and F_pass (PASS). O_lit: ASSERT_CONSUME in
\* class, byte and codepoint mode. O_noop: a word with opcode 8 in front of
\* an index table over the byte under the cursor. O_tok: SET_TOKEN in its
\* type and length forms, with and without the consume flag. O_scan: a token
\* dispatch whose scanner region SCF ends in a FORK.
IMG_OPS ==
    <<
       W(0, 0),                             \*  0 PASS (null block)
       W(15, 0),                            \*  1 RETURN: fail
       W(15, 0),                            \*  2 RETURN: fail
       W(5, 1),                             \*  3 O_zero: SET_TOKEN lookahead length 1
       W(1, 1),                             \*  4 CONSUME nothing
       W(5, 1),                             \*  5 SET_TOKEN lookahead length 1
       W(1, 0),                             \*  6 CONSUME
       W(0, 0),                             \*  7 PASS
       W(11, P27 + 14),                     \*  8 O_ret: PUSH_FAIL_STATE F_pass
       W(11, P27 + 13),                     \*  9 PUSH_FAIL_STATE F_keep
       W(11, P27 + 13),                     \* 10 PUSH_FAIL_STATE F_keep
       W(11, P27 + 13),                     \* 11 PUSH_FAIL_STATE F_keep
       W(15, 0),                            \* 12 RETURN: fail
       W(15, 1),                            \* 13 F_keep: RETURN: fail_mode unchanged
       W(0, 0),                             \* 14 F_pass: PASS
       W(14, 3),                            \* 15 O_lit: ASSERT_CONSUME class 3
       W(14, P25 + 121),                    \* 16 ASSERT_CONSUME byte 121
       W(14, P24 + 233),                    \* 17 ASSERT_CONSUME codepoint 233
       W(0, 0),                             \* 18 PASS
       W(8, P24 + 121),                     \* 19 O_noop: NOOP (dispatched as INDEX_JUMP) byte (basis 121)
       W(0, 0),                             \* 20 scanner pointer: none
       W(0, 1 * P16 + 2),                   \* 21 table_data: 1 rows of 2 words
       W(15, 0),                            \* 22 RETURN: fail
       W(0, 0),                             \* 23 (padding)
       W(1, 0),                             \* 24 CONSUME
       W(0, 0),                             \* 25 PASS
       W(5, 1),                             \* 26 O_tok: SET_TOKEN lookahead length 1
       W(5, P27 + P24 + 2),                 \* 27 SET_TOKEN type 2 after consume
       W(5, P24 + 2),                       \* 28 SET_TOKEN lookahead length 2 after consume
       W(5, P27 + 3),                       \* 29 SET_TOKEN type 3
       W(0, 0),                             \* 30 PASS
       W(10, 1 * P22 + 2),                  \* 31 O_scan: HASH_JUMP token (forking scanner) (field size 2)
       W(0, P26 + 38),                      \* 32 scanner pointer -> SCF
       W(0, 1),                             \* 33 table_data: modulus bits 0, 1 cells
       W(8, 2),                             \* 34 cell: value 2, instruction offset 0, step 0
       W(1, 0),                             \* 35 CONSUME
       W(0, 0),                             \* 36 PASS
       W(15, 0),                            \* 37 RETURN: fail
       W(5, 1),                             \* 38 SCF: SET_TOKEN lookahead length 1
       W(1, 0),                             \* 39 CONSUME
       W(5, P27 + 2),                       \* 40 SET_TOKEN type 2
       W(6, 0)                              \* 41 FORK
    >>

\* The grammar W -> tk:x (+) over a scanner region SCK in which the newline
\* and the character z are skipped productions: the newline is consumed, z is
\* not (a skipped token of length zero). Entry K0 (address 3).
IMG_SKIP ==
    <<
       W(0, 0),                             \*  0 PASS (null block)
       W(15, 0),                            \*  1 RETURN: fail
       W(15, 0),                            \*  2 RETURN: fail
       W(10, 1 * P22 + 3),                  \*  3 K0: HASH_JUMP token (field size 3)
       W(0, P26 + 11),                      \*  4 scanner pointer -> SCK
       W(0, 1),                             \*  5 table_data: modulus bits 0, 1 cells
       W(8, 2),                             \*  6 cell: value 2, instruction offset 0, step 0
       W(1, 0),                             \*  7 CONSUME
       W(2, P26 + 3),                       \*  8 GOTO K0
       W(0, 0),                             \*  9 PASS
       W(15, 0),                            \* 10 RETURN: fail
       W(10, 3 * P22 + 8),                  \* 11 SCK: HASH_JUMP codepoint (field size 8)
       W(0, 0),                             \* 12 scanner pointer: none
       W(0, 1 * P16 + 3),                   \* 13 table_data: modulus bits 1, 3 cells
       W(8, 1 * P22 + 10),                  \* 14 cell: value 10, instruction offset 0, step 1
       W(8, 1 * P22 + 6264),                \* 15 cell: value 120, instruction offset 3, step 1
       W(8, 12410),                         \* 16 cell: value 122, instruction offset 6, step 0
       W(1, 0),                             \* 17 CONSUME
       W(5, P27 + 9009),                    \* 18 SET_TOKEN type 9009
       W(0, 0),                             \* 19 PASS
       W(1, 0),                             \* 20 CONSUME
       W(5, P27 + 2),                       \* 21 SET_TOKEN type 2
       W(0, 0),                             \* 22 PASS
       W(5, P27 + 9009),                    \* 23 SET_TOKEN type 9009
       W(0, 0),                             \* 24 PASS
       W(15, 0)                             \* 25 RETURN: fail
    >>

\* ------------------------------------------------------- jump tables

\* Each image holds an INDEX_JUMP table (address 3) and a HASH_JUMP table for
\* one mapping from values to branch blocks; a branch block is
\* SET_PRODUCTION b; PASS, with b the number of the branch, and the default
\* block is branch 0. Rows of the index table without a key repeat the
\* default block.

\* The mapping 1 -> 1, 2 -> 2, 3 -> 3.
IMG_JT_DENSE ==
    <<
       W(0, 0),                             \*  0 PASS (null block)
       W(15, 0),                            \*  1 RETURN: fail
       W(15, 0),                            \*  2 RETURN: fail
       W(9, 1),                             \*  3 INDEX: INDEX_JUMP production (basis 1)
       W(0, 0),                             \*  4 scanner pointer: none
       W(0, 3 * P16 + 2),                   \*  5 table_data: 3 rows of 2 words
       W(3, 0),                             \*  6 SET_PRODUCTION 0
       W(0, 0),                             \*  7 PASS
       W(3, 1),                             \*  8 SET_PRODUCTION 1
       W(0, 0),                             \*  9 PASS
       W(3, 2),                             \* 10 SET_PRODUCTION 2
       W(0, 0),                             \* 11 PASS
       W(3, 3),                             \* 12 SET_PRODUCTION 3
       W(0, 0),                             \* 13 PASS
       W(10, 6),                            \* 14 HASH: HASH_JUMP production (field size 6)
       W(0, 0),                             \* 15 scanner pointer: none
       W(0, 1 * P16 + 3),                   \* 16 table_data: modulus bits 1, 3 cells
       W(8, 4098),                          \* 17 cell: value 2, instruction offset 2, step 0
       W(8, 1 * P22 + 1),                   \* 18 cell: value 1, instruction offset 0, step 1
       W(8, 8195),                          \* 19 cell: value 3, instruction offset 4, step 0
       W(3, 1),                             \* 20 SET_PRODUCTION 1
       W(0, 0),                             \* 21 PASS
       W(3, 2),                             \* 22 SET_PRODUCTION 2
       W(0, 0),                             \* 23 PASS
       W(3, 3),                             \* 24 SET_PRODUCTION 3
       W(0, 0),                             \* 25 PASS
       W(3, 0),                             \* 26 SET_PRODUCTION 0
       W(0, 0)                              \* 27 PASS
    >>

\* The mapping 2 -> 1, 6 -> 2, 10 -> 3: every key has the same hash, the
\* hash cells form one chain, and the index table has rows without a key.
IMG_JT_EVEN ==
    <<
       W(0, 0),                             \*  0 PASS (null block)
       W(15, 0),                            \*  1 RETURN: fail
       W(15, 0),                            \*  2 RETURN: fail
       W(9, 2),                             \*  3 INDEX: INDEX_JUMP production (basis 2)
       W(0, 0),                             \*  4 scanner pointer: none
       W(0, 9 * P16 + 2),                   \*  5 table_data: 9 rows of 2 words
       W(3, 0),                             \*  6 SET_PRODUCTION 0
       W(0, 0),                             \*  7 PASS
       W(3, 1),                             \*  8 SET_PRODUCTION 1
       W(0, 0),                             \*  9 PASS
       W(3, 0),                             \* 10 SET_PRODUCTION 0
       W(0, 0),                             \* 11 PASS
       W(3, 0),                             \* 12 SET_PRODUCTION 0
       W(0, 0),                             \* 13 PASS
       W(3, 0),                             \* 14 SET_PRODUCTION 0
       W(0, 0),                             \* 15 PASS
       W(3, 2),                             \* 16 SET_PRODUCTION 2
       W(0, 0),                             \* 17 PASS
       W(3, 0),                             \* 18 SET_PRODUCTION 0
       W(0, 0),                             \* 19 PASS
       W(3, 0),                             \* 20 SET_PRODUCTION 0
       W(0, 0),                             \* 21 PASS
       W(3, 0),                             \* 22 SET_PRODUCTION 0
       W(0, 0),                             \* 23 PASS
       W(3, 3),                             \* 24 SET_PRODUCTION 3
       W(0, 0),                             \* 25 PASS
       W(10, 6),                            \* 26 HASH: HASH_JUMP production (field size 6)
       W(0, 0),                             \* 27 scanner pointer: none
       W(0, 1 * P16 + 3),                   \* 28 table_data: modulus bits 1, 3 cells
       W(8, 1 * P22 + 2),                   \* 29 cell: value 2, instruction offset 0, step 1
       W(8, 1 * P22 + 4102),                \* 30 cell: value 6, instruction offset 2, step 1
       W(8, 8202),                          \* 31 cell: value 10, instruction offset 4, step 0
       W(3, 1),                             \* 32 SET_PRODUCTION 1
       W(0, 0),                             \* 33 PASS
       W(3, 2),                             \* 34 SET_PRODUCTION 2
       W(0, 0),                             \* 35 PASS
       W(3, 3),                             \* 36 SET_PRODUCTION 3
       W(0, 0),                             \* 37 PASS
       W(3, 0),                             \* 38 SET_PRODUCTION 0
       W(0, 0)                              \* 39 PASS
    >>

\* The mapping 0 -> 5.
IMG_JT_ZERO ==
    <<
       W(0, 0),                             \*  0 PASS (null block)
       W(15, 0),                            \*  1 RETURN: fail
       W(15, 0),                            \*  2 RETURN: fail
       W(9, 0),                             \*  3 INDEX: INDEX_JUMP production (basis 0)
       W(0, 0),                             \*  4 scanner pointer: none
       W(0, 1 * P16 + 2),                   \*  5 table_data: 1 rows of 2 words
       W(3, 0),                             \*  6 SET_PRODUCTION 0
       W(0, 0),                             \*  7 PASS
       W(3, 5),                             \*  8 SET_PRODUCTION 5
       W(0, 0),                             \*  9 PASS
       W(10, 2),                            \* 10 HASH: HASH_JUMP production (field size 2)
       W(0, 0),                             \* 11 scanner pointer: none
       W(0, 1),                             \* 12 table_data: modulus bits 0, 1 cells
       W(8, 0),                             \* 13 cell: value 0, instruction offset 0, step 0
       W(3, 5),                             \* 14 SET_PRODUCTION 5
       W(0, 0),                             \* 15 PASS
       W(3, 0),                             \* 16 SET_PRODUCTION 0
       W(0, 0)                              \* 17 PASS
    >>

\* The mapping 5 -> 1, 6 -> 2, 7 -> 1, 8 -> 4, 9 -> 2.
IMG_JT_SHARED ==
    <<
       W(0, 0),                             \*  0 PASS (null block)
       W(15, 0),                            \*  1 RETURN: fail
       W(15, 0),                            \*  2 RETURN: fail
       W(9, 5),                             \*  3 INDEX: INDEX_JUMP production (basis 5)
       W(0, 0),                             \*  4 scanner pointer: none
       W(0, 5 * P16 + 2),                   \*  5 table_data: 5 rows of 2 words
       W(3, 0),                             \*  6 SET_PRODUCTION 0
       W(0, 0),                             \*  7 PASS
       W(3, 1),                             \*  8 SET_PRODUCTION 1
       W(0, 0),                             \*  9 PASS
       W(3, 2),                             \* 10 SET_PRODUCTION 2
       W(0, 0),                             \* 11 PASS
       W(3, 1),                             \* 12 SET_PRODUCTION 1
       W(0, 0),                             \* 13 PASS
       W(3, 4),                             \* 14 SET_PRODUCTION 4
       W(0, 0),                             \* 15 PASS
       W(3, 2),                             \* 16 SET_PRODUCTION 2
       W(0, 0),                             \* 17 PASS
       W(10, 10),                           \* 18 HASH: HASH_JUMP production (field size 10)
       W(0, 0),                             \* 19 scanner pointer: none
       W(0, 2 * P16 + 5),                   \* 20 table_data: modulus bits 2, 5 cells
       W(8, 12296),                         \* 21 cell: value 8, instruction offset 6, step 0
       W(8, 3 * P22 + 5),                   \* 22 cell: value 5, instruction offset 0, step 3
       W(8, 4102),                          \* 23 cell: value 6, instruction offset 2, step 0
       W(8, 8199),                          \* 24 cell: value 7, instruction offset 4, step 0
       W(8, 16393),                         \* 25 cell: value 9, instruction offset 8, step 0
       W(3, 1),                             \* 26 SET_PRODUCTION 1
       W(0, 0),                             \* 27 PASS
       W(3, 2),                             \* 28 SET_PRODUCTION 2
       W(0, 0),                             \* 29 PASS
       W(3, 1),                             \* 30 SET_PRODUCTION 1
       W(0, 0),                             \* 31 PASS
       W(3, 4),                             \* 32 SET_PRODUCTION 4
       W(0, 0),                             \* 33 PASS
       W(3, 2),                             \* 34 SET_PRODUCTION 2
       W(0, 0),                             \* 35 PASS
       W(3, 0),                             \* 36 SET_PRODUCTION 0
       W(0, 0)                              \* 37 PASS
    >>

\* The mapping 2040 -> 1, 2047 -> 2: the largest value a hash cell holds.
IMG_JT_HIGH ==
    <<
       W(0, 0),                             \*  0 PASS (null block)
       W(15, 0),                            \*  1 RETURN: fail
       W(15, 0),                            \*  2 RETURN: fail
       W(9, 2040),                          \*  3 INDEX: INDEX_JUMP production (basis 2040)
       W(0, 0),                             \*  4 scanner pointer: none
       W(0, 8 * P16 + 2),                   \*  5 table_data: 8 rows of 2 words
       W(3, 0),                             \*  6 SET_PRODUCTION 0
       W(0, 0),                             \*  7 PASS
       W(3, 1),                             \*  8 SET_PRODUCTION 1
       W(0, 0),                             \*  9 PASS
       W(3, 0),                             \* 10 SET_PRODUCTION 0
       W(0, 0),                             \* 11 PASS
       W(3, 0),                             \* 12 SET_PRODUCTION 0
       W(0, 0),                             \* 13 PASS
       W(3, 0),                             \* 14 SET_PRODUCTION 0
       W(0, 0),                             \* 15 PASS
       W(3, 0),                             \* 16 SET_PRODUCTION 0
       W(0, 0),                             \* 17 PASS
       W(3, 0),                             \* 18 SET_PRODUCTION 0
       W(0, 0),                             \* 19 PASS
       W(3, 0),                             \* 20 SET_PRODUCTION 0
       W(0, 0),                             \* 21 PASS
       W(3, 2),                             \* 22 SET_PRODUCTION 2
       W(0, 0),                             \* 23 PASS
       W(10, 4),                            \* 24 HASH: HASH_JUMP production (field size 4)
       W(0, 0),                             \* 25 scanner pointer: none
       W(0, 1 * P16 + 2),                   \* 26 table_data: modulus bits 1, 2 cells
       W(8, 2040),                          \* 27 cell: value 2040, instruction offset 0, step 0
       W(8, 6143),                          \* 28 cell: value 2047, instruction offset 2, step 0
       W(3, 1),                             \* 29 SET_PRODUCTION 1
       W(0, 0),                             \* 30 PASS
       W(3, 2),                             \* 31 SET_PRODUCTION 2
       W(0, 0),                             \* 32 PASS
       W(3, 0),                             \* 33 SET_PRODUCTION 0
       W(0, 0)                              \* 34 PASS
    >>

\* The mapping 3 -> 7, 4 -> 8, 11 -> 9, 12 -> 10.
IMG_JT_SPARSE ==
    <<
       W(0, 0),                             \*  0 PASS (null block)
       W(15, 0),                            \*  1 RETURN: fail
       W(15, 0),                            \*  2 RETURN: fail
       W(9, 3),                             \*  3 INDEX: INDEX_JUMP production (basis 3)
       W(0, 0),                             \*  4 scanner pointer: none
       W(0, 10 * P16 + 2),                  \*  5 table_data: 10 rows of 2 words
       W(3, 0),                             \*  6 SET_PRODUCTION 0
       W(0, 0),                             \*  7 PASS
       W(3, 7),                             \*  8 SET_PRODUCTION 7
       W(0, 0),                             \*  9 PASS
       W(3, 8),                             \* 10 SET_PRODUCTION 8
       W(0, 0),                             \* 11 PASS
       W(3, 0),                             \* 12 SET_PRODUCTION 0
       W(0, 0),                             \* 13 PASS
       W(3, 0),                             \* 14 SET_PRODUCTION 0
       W(0, 0),                             \* 15 PASS
       W(3, 0),                             \* 16 SET_PRODUCTION 0
       W(0, 0),                             \* 17 PASS
       W(3, 0),                             \* 18 SET_PRODUCTION 0
       W(0, 0),                             \* 19 PASS
       W(3, 0),                             \* 20 SET_PRODUCTION 0
       W(0, 0),                             \* 21 PASS
       W(3, 0),                             \* 22 SET_PRODUCTION 0
       W(0, 0),                             \* 23 PASS
       W(3, 9),                             \* 24 SET_PRODUCTION 9
       W(0, 0),                             \* 25 PASS
       W(3, 10),                            \* 26 SET_PRODUCTION 10
       W(0, 0),                             \* 27 PASS
       W(10, 8),                            \* 28 HASH: HASH_JUMP production (field size 8)
       W(0, 0),                             \* 29 scanner pointer: none
       W(0, 2 * P16 + 4),                   \* 30 table_data: modulus bits 2, 4 cells
       W(8, 2 * P22 + 4100),                \* 31 cell: value 4, instruction offset 2, step 2
       W(8, 8203),                          \* 32 cell: value 11, instruction offset 4, step 0
       W(8, 12300),                         \* 33 cell: value 12, instruction offset 6, step 0
       W(7, P27 + P26 + P25 + P24 + 2 * P22 + 3),\* 34 cell: value 3, instruction offset 0, step -2
       W(3, 7),                             \* 35 SET_PRODUCTION 7
       W(0, 0),                             \* 36 PASS
       W(3, 8),                             \* 37 SET_PRODUCTION 8
       W(0, 0),                             \* 38 PASS
       W(3, 9),                             \* 39 SET_PRODUCTION 9
       W(0, 0),                             \* 40 PASS
       W(3, 10),                            \* 41 SET_PRODUCTION 10
       W(0, 0),                             \* 42 PASS
       W(3, 0),                             \* 43 SET_PRODUCTION 0
       W(0, 0)                              \* 44 PASS
    >>

\* the tables: the image, the addresses of the two jump instructions and the
\* mapping both tables encode
JumpTables ==
    { [image |-> "JT_DENSE", index_at |-> 3, hash_at |-> 14,
        map |-> (1 :> 1 @@ 2 :> 2 @@ 3 :> 3)],
      [image |-> "JT_EVEN", index_at |-> 3, hash_at |-> 26,
        map |-> (2 :> 1 @@ 6 :> 2 @@ 10 :> 3)],
      [image |-> "JT_ZERO", index_at |-> 3, hash_at |-> 10,
        map |-> (0 :> 5)],
      [image |-> "JT_SHARED", index_at |-> 3, hash_at |-> 18,
        map |-> (5 :> 1 @@ 6 :> 2 @@ 7 :> 1 @@ 8 :> 4 @@ 9 :> 2)],
      [image |-> "JT_HIGH", index_at |-> 3, hash_at |-> 24,
        map |-> (2040 :> 1 @@ 2047 :> 2)],
      [image |-> "JT_SPARSE", index_at |-> 3, hash_at |-> 28,
        map |-> (3 :> 7 @@ 4 :> 8 @@ 11 :> 9 @@ 12 :> 10)] }

\* ---------------------------------------------------------------- state

VARIABLES
    image,      \* the name of the BytecodeImage the engines run (read-only)
    input,      \* the input byte sequence (read-only)
    frames,     \* the live engines: frames[1] is the engine the caller started,
                \* frames[d + 1] the scanner engine that frames[d] is waiting for
    out,        \* the actions delivered to the caller's sink, in order
    status,     \* "running", "done" (start returned) or "thrown"
    jump,       \* the jump table under test, when the dispatch handlers are
                \* run on their own (JumpSpec); NoJump in engine sessions
    forked,     \* the invocations of fork_handler so far, in order: the
                \* pointer passed, the depth of the engine passed, the reply
    hook,       \* the module-level variable peek (lines 15-19): the hook
                \* installed and what each embedder's hook was called with
    pair,       \* a second engine instance over the same image, set aside
                \* while the first one runs (PairSpec); none in Spec
    transport,  \* the TransportHandler of the debugger page and the events
                \* waiting for its update (TransportSpec); idle elsewhere
    dbg         \* the stepping state of a DebugIterator (DebugSpec): the
                \* snapshots returned, the call in progress, and the
                \* iterations start() has made on the same session since

vars == << image, input, frames, out, status, jump, forked, hook, pair, dbg, transport >>

\* peek as the module initialises it (line 15): a function that does nothing
NoHook == [peek |-> "default", seen |-> [o \in { "A", "B" } |-> << >>]]

\* no second instance
NoPair == [active |-> "A", switches |-> 0, idle |-> [frames |-> << >>, out |-> << >>, status |-> "none", forked |-> << >>]]

\* no DebugIterator: the engine is run by start()
NoDebug == [mode |-> "start", iterations |-> 0, chain |-> << >>, from |-> 0, state |-> 0, last_good_state |-> -1, replay |-> << >>, objs |-> [tokens |-> 1, reader |-> 2, stack |-> 3], fresh |-> 4]

\* a TransportHandler as its field initialisers leave it (lines 321-335):
\* no parser, no steps, nothing emitted and no update handled
NoParser == [live |-> FALSE, script |-> << >>]
NoUpdate == [t |-> "none", calls |-> << >>, toggles |-> 0, allow_play |-> FALSE, returned |-> << >>]
NoTransport == [parser |-> NoParser, debugger_offset |-> -1, debugger_steps |-> << >>, PARSING |-> FALSE, allow_play |-> FALSE, step_to_next_action |-> FALSE, input |-> FALSE, listening |-> FALSE, pending |-> { }, last |-> NoUpdate]

NoJump == [d |-> 0, index_target |-> -1, hash_target |-> -1]

\* StateIterator.bytecode
bytecode ==
    CASE image = "XY_ASSERT" -> IMG_XY_ASSERT
      [] image = "XY_INDEX" -> IMG_XY_INDEX
      [] image = "LIST" -> IMG_LIST
      [] image = "RECOVER" -> IMG_RECOVER
      [] image = "PEEK" -> IMG_PEEK
      [] image = "MISC" -> IMG_MISC
      [] image = "OPS" -> IMG_OPS
      [] image = "SKIP" -> IMG_SKIP
      [] image = "JT_DENSE" -> IMG_JT_DENSE
      [] image = "JT_EVEN" -> IMG_JT_EVEN
      [] image = "JT_ZERO" -> IMG_JT_ZERO
      [] image = "JT_SHARED" -> IMG_JT_SHARED
      [] image = "JT_HIGH" -> IMG_JT_HIGH
      [] OTHER -> IMG_JT_SPARSE

Depth == Len(frames)
Top == frames[Depth]

\* the token a scanner-role engine delivers: tokens[0] (lines 186-197)
ScannerToken(e) == e.tokens[1]

\* Finalize without the role test: a scanner-role engine ends like a parser
Finalize_NoRoleTest(inp, e) ==
    LET advanced == e.tokens[2]
        err == [ type |-> "ERROR", last_state |-> e.last_good_state,
                 tk_type |-> advanced.type, tk_offset |-> advanced.codepoint_offset,
                 tk_length |-> advanced.codepoint_length, production |-> e.production_id ]
    IN IF e.fail_mode THEN err
       ELSE IF e.root >= 0 /\ e.production_id = e.root THEN [type |-> "ACCEPT"]
       ELSE IF OffsetAtEnd(inp, e.tokens[2].byte_offset) THEN [type |-> "ACCEPT"]
       ELSE err

\* Finalize with the goal and end-of-input tests ahead of the fail_mode test
Finalize_GoalFirst(inp, e) ==
    LET token == ScannerToken(e)
        advanced == e.tokens[2]
        err == [ type |-> "ERROR", last_state |-> e.last_good_state,
                 tk_type |-> advanced.type, tk_offset |-> advanced.codepoint_offset,
                 tk_length |-> advanced.codepoint_length, production |-> e.production_id ]
    IN IF e.SCANNER THEN [type |-> "TOKEN", token |-> token]
       ELSE IF e.root >= 0 /\ e.production_id = e.root THEN [type |-> "ACCEPT"]
       ELSE IF OffsetAtEnd(inp, e.tokens[2].byte_offset) THEN [type |-> "ACCEPT"]
       ELSE err

\* the terminal action of start() when the stack is empty (lines 184-225)
Finalize(inp, e) ==
    LET token == ScannerToken(e)
        advanced == e.tokens[2]
        err == [ type |-> "ERROR", last_state |-> e.last_good_state,
                 tk_type |-> advanced.type, tk_offset |-> advanced.codepoint_offset,
                 tk_length |-> advanced.codepoint_length, production |-> e.production_id ]
    IN IF e.SCANNER THEN [type |-> "TOKEN", token |-> token]
       ELSE IF e.fail_mode THEN err
       ELSE IF e.root >= 0 /\ e.production_id = e.root THEN [type |-> "ACCEPT"]
       ELSE IF OffsetAtEnd(inp, e.tokens[2].byte_offset) THEN [type |-> "ACCEPT"]
       ELSE err

\* PopState reading the top entry and removing it only when the gate admits it
PopState_KeepDiscarded(e) ==
    LET n == Len(e.stack)
        state == e.stack[n].state
        e1 == [e EXCEPT !.stack = SubSeq(e.stack, 1, n - 1)]
        mask_gate == IF e.fail_mode THEN normal_state_mask * 2 ELSE normal_state_mask
        e2 == IF state # 0 /\ ~e.fail_mode THEN [e1 EXCEPT !.last_good_state = state] ELSE e1
    IN IF state # 0 /\ Bit(state, mask_gate)
       THEN [e2 EXCEPT !.pc = "exec",
                       !.index = state % state_index_mask,
                       !.recover_data = e.stack[n].meta]
       ELSE e

\* PopState recording the popped entry in both modes
PopState_TrackInFailMode(e) ==
    LET n == Len(e.stack)
        state == e.stack[n].state
        e1 == [e EXCEPT !.stack = SubSeq(e.stack, 1, n - 1)]
        mask_gate == IF e.fail_mode THEN normal_state_mask * 2 ELSE normal_state_mask
        e2 == IF state # 0 THEN [e1 EXCEPT !.last_good_state = state] ELSE e1
    IN IF state # 0 /\ Bit(state, mask_gate)
       THEN [e2 EXCEPT !.pc = "exec",
                       !.index = state % state_index_mask,
                       !.recover_data = e.stack[n].meta]
       ELSE e2

\* PopState without the gate: every non-zero entry is executed
PopState_NoGate(e) ==
    LET n == Len(e.stack)
        state == e.stack[n].state
        e1 == [e EXCEPT !.stack = SubSeq(e.stack, 1, n - 1)]
        e2 == IF state # 0 /\ ~e.fail_mode THEN [e1 EXCEPT !.last_good_state = state] ELSE e1
    IN IF state # 0
       THEN [e2 EXCEPT !.pc = "exec",
                       !.index = state % state_index_mask,
                       !.recover_data = e.stack[n].meta]
       ELSE e2

\* PopState with the normal-mode gate in both modes
PopState_NormalGateOnly(e) ==
    LET n == Len(e.stack)
        state == e.stack[n].state
        e1 == [e EXCEPT !.stack = SubSeq(e.stack, 1, n - 1)]
        mask_gate == normal_state_mask
        e2 == IF state # 0 /\ ~e.fail_mode THEN [e1 EXCEPT !.last_good_state = state] ELSE e1
    IN IF state # 0 /\ Bit(state, mask_gate)
       THEN [e2 EXCEPT !.pc = "exec",
                       !.index = state % state_index_mask,
                       !.recover_data = e.stack[n].meta]
       ELSE e2

\* one iteration of the driver loop with a non-empty stack (lines 227-252).
\* Stack entries are unsigned 32-bit words (push_fail_state pushes
\* instruction >>> 0), kept here in two's complement: state > 0 is state # 0.
PopState(e) ==
    LET n == Len(e.stack)
        state == e.stack[n].state
        e1 == [e EXCEPT !.stack = SubSeq(e.stack, 1, n - 1)]
        mask_gate == IF e.fail_mode THEN normal_state_mask * 2 ELSE normal_state_mask
        e2 == IF state # 0 /\ ~e.fail_mode THEN [e1 EXCEPT !.last_good_state = state] ELSE e1
    IN IF state # 0 /\ Bit(state, mask_gate)
       THEN [e2 EXCEPT !.pc = "exec",
                       !.index = state % state_index_mask,
                       !.recover_data = e.stack[n].meta]
       ELSE e2

\* the sink of an engine: the caller's sink for frames[1]; for a scanner
\* engine the handler of scanner(), which throws on every action but TOKEN
Commit(e) ==
    IF Depth = 1
    THEN /\ frames' = << [e EXCEPT !.em = << >>] >>
         /\ out' = out \o e.em
         /\ status' = status
    ELSE /\ frames' = [frames EXCEPT ![Depth] = [e EXCEPT !.em = << >>]]
         /\ out' = out
         /\ status' = IF e.em # << >> THEN "thrown" ELSE status

\* the instruction the executor is about to decode
Instr == BC(bytecode, Top.index)
Executing(op) ==
    /\ status = "running"
    /\ Top.pc = "exec"
    /\ Opcode(Instr) = op
\* the engine after the fetch: index += 1
Fetched == [Top EXCEPT !.index = @ + 1]

\* scanner(): the nested engine over a clone of the reader placed on the token
ScannerEngine(e, current_token, scanner_start_pointer) ==
    NewEngine(input,
              IF SetCursorOk(input, current_token) THEN current_token.byte_offset ELSE e.cursor,
              scanner_start_pointer, TRUE, current_token, -1)

\* the caller e suspends in scanner(); its continuation is e.cont
CallScanner(e) ==
    IF Depth >= MaxDepth
    THEN /\ frames' = [frames EXCEPT ![Depth] = e]
         /\ out' = out
         /\ status' = "thrown"
    ELSE /\ frames' = [i \in 1..(Depth + 1) |->
                          IF i < Depth THEN frames[i]
                          ELSE IF i = Depth THEN [e EXCEPT !.pc = "wait"]
                          ELSE ScannerEngine(e, e.cont.cur, e.cont.ssp)]
         /\ out' = out
         /\ status' = status

\* the replies of the ForkDelegate (external): none, or actions to replay
ForkReplies ==
    { << >>,
      << [type |-> "LAZY", state_pointer |-> 7], [type |-> "LAZY", state_pointer |-> 8] >> }

\* -------------------------------------------------------------- actions

\* case 0: PASS
DoPass ==
    /\ Executing(0)
    /\ Commit([Fetched EXCEPT !.pc = "loop", !.fail_mode = Pass])
    /\ UNCHANGED << image, input, jump, forked, hook, pair, dbg, transport >>

\* case 1: CONSUME
DoConsume ==
    /\ Executing(1)
    /\ Commit(Consume(Fetched, Instr))
    /\ UNCHANGED << image, input, jump, forked, hook, pair, dbg, transport >>

\* case 2: GOTO
DoGoto ==
    /\ Executing(2)
    /\ Commit(Goto(bytecode, Fetched, Instr, Fetched.index))
    /\ UNCHANGED << image, input, jump, forked, hook, pair, dbg, transport >>

\* case 3: SET_PRODUCTION
DoSetProduction ==
    /\ Executing(3)
    /\ Commit(SetProduction(Fetched, Instr))
    /\ UNCHANGED << image, input, jump, forked, hook, pair, dbg, transport >>

\* case 4: REDUCE
DoReduce ==
    /\ Executing(4)
    /\ Commit(Reduce(bytecode, Fetched, Instr, Fetched.index, Top.recover_data))
    /\ UNCHANGED << image, input, jump, forked, hook, pair, dbg, transport >>

\* case 5: SET_TOKEN
DoSetToken ==
    /\ Executing(5)
    /\ Commit(SetToken(Fetched, Instr, Fetched.index))
    /\ UNCHANGED << image, input, jump, forked, hook, pair, dbg, transport >>

\* fork() going on with the block after an empty reply
Fork_EmptyContinues(e, buffer) ==
    IF Len(buffer) > 0
    THEN [e EXCEPT !.em = @ \o buffer, !.index = 1]
    ELSE e

\* StateIterator.fork, from the reply of fork_handler on (lines 1020-1027)
Fork(e, buffer) ==
    IF Len(buffer) > 0
    THEN [e EXCEPT !.em = @ \o buffer, !.index = 1]
    ELSE [e EXCEPT !.index = 0]

\* case 6: FORK (lines 1008-1027); a scanner engine's delegate is a => []
\* A DebugIterator never runs start(), which is where fork_handler is
\* assigned (line 170): its FORK calls undefined and throws.
DoFork ==
    /\ Executing(6)
    /\ IF dbg.mode = "debug" /\ Depth = 1
       THEN /\ status' = "thrown"
            /\ UNCHANGED << frames, out, forked >>
       ELSE \E reply \in (IF Depth = 1 THEN ForkReplies ELSE { << >> }) :
               /\ forked' = Append(forked, [pointer |-> Fetched.index - 1,
                                            iterator |-> Depth,
                                            reply |-> reply])
               /\ Commit(Fork(Fetched, reply))
    /\ UNCHANGED << image, input, jump, hook, pair, dbg, transport >>

\* scan_to() writing the lookahead after a backward scan as well
ScanToResume_CommitBackward(e, c) ==
    LET token == c.cur
        found == \E i \in c.start..(c.end - 1) : BC(bytecode, i) = token.type
        stepped == IF token.byte_length > 0
                   THEN [token EXCEPT !.byte_offset = token.byte_offset + token.byte_length,
                                      !.codepoint_offset = token.codepoint_offset + token.codepoint_offset,
                                      !.byte_length = 0, !.codepoint_length = 0]
                   ELSE [token EXCEPT !.byte_offset = token.byte_offset + 1,
                                      !.codepoint_offset = token.codepoint_offset + 1,
                                      !.byte_length = 0, !.codepoint_length = 0]
    IN IF found
       THEN [ call |-> FALSE,
              e |-> [ [e EXCEPT !.tokens[2] = token]
                      EXCEPT !.index = c.index, !.pc = "exec", !.cont = NoCont ] ]
       ELSE IF OffsetAtEnd(input, token.byte_offset)
       THEN [ call |-> FALSE, e |-> [e EXCEPT !.index = 1, !.pc = "exec", !.cont = NoCont] ]
       ELSE [ call |-> TRUE, e |-> [e EXCEPT !.cont = [c EXCEPT !.cur = stepped]] ]

\* scan_to() writing the lookahead also when the input is exhausted
ScanToResume_CommitOnExhaustion(e, c) ==
    LET token == c.cur
        found == \E i \in c.start..(c.end - 1) : BC(bytecode, i) = token.type
        stepped == IF token.byte_length > 0
                   THEN [token EXCEPT !.byte_offset = token.byte_offset + token.byte_length,
                                      !.codepoint_offset = token.codepoint_offset + token.codepoint_offset,
                                      !.byte_length = 0, !.codepoint_length = 0]
                   ELSE [token EXCEPT !.byte_offset = token.byte_offset + 1,
                                      !.codepoint_offset = token.codepoint_offset + 1,
                                      !.byte_length = 0, !.codepoint_length = 0]
        written == IF c.scan_back THEN e ELSE [e EXCEPT !.tokens[2] = token]
    IN IF found
       THEN [ call |-> FALSE,
              e |-> [written EXCEPT !.index = c.index, !.pc = "exec", !.cont = NoCont] ]
       ELSE IF OffsetAtEnd(input, token.byte_offset)
       THEN [ call |-> FALSE, e |-> [written EXCEPT !.index = 1, !.pc = "exec", !.cont = NoCont] ]
       ELSE [ call |-> TRUE, e |-> [e EXCEPT !.cont = [c EXCEPT !.cur = stepped]] ]

\* the loop of scan_to after scanner() returned the token (lines 649-676):
\* e is the engine, c its continuation with c.cur the token returned
ScanToResume(e, c) ==
    LET token == c.cur
        found == \E i \in c.start..(c.end - 1) : BC(bytecode, i) = token.type
        stepped == IF token.byte_length > 0
                   THEN [token EXCEPT !.byte_offset = token.byte_offset + token.byte_length,
                                      !.codepoint_offset = token.codepoint_offset + token.codepoint_offset,
                                      !.byte_length = 0, !.codepoint_length = 0]
                   ELSE [token EXCEPT !.byte_offset = token.byte_offset + 1,
                                      !.codepoint_offset = token.codepoint_offset + 1,
                                      !.byte_length = 0, !.codepoint_length = 0]
    IN IF found
       THEN [ call |-> FALSE,
              e |-> [ (IF c.scan_back THEN e ELSE [e EXCEPT !.tokens[2] = token])
                      EXCEPT !.index = c.index, !.pc = "exec", !.cont = NoCont ] ]
       ELSE IF OffsetAtEnd(input, token.byte_offset)
       THEN [ call |-> FALSE, e |-> [e EXCEPT !.index = 1, !.pc = "exec", !.cont = NoCont] ]
       ELSE [ call |-> TRUE, e |-> [e EXCEPT !.cont = [c EXCEPT !.cur = stepped]] ]

\* case 7: SCAN_TO (lines 614-647), up to its first call of scanner()
DoScanTo ==
    /\ Executing(7)
    /\ LET e == Fetched
           index == e.index
           length == Instr % P16
           scan_back == Bit(Instr, P20)
           prev_token == e.tokens[1]
           t0 == [e.tokens[2] EXCEPT !.type = 0]
           temp_token == IF scan_back
                         THEN [t0 EXCEPT !.byte_offset = prev_token.byte_offset,
                                         !.codepoint_offset = prev_token.codepoint_offset,
                                         !.byte_length = 0, !.codepoint_length = 0]
                         ELSE t0
       IN CallScanner([e EXCEPT !.cont =
              [ kind |-> "scan", cur |-> temp_token, target |-> 0, instr |-> Instr,
                index |-> index + 1 + length, ssp |-> BC(bytecode, index),
                start |-> index + 1, end |-> index + 1 + length,
                scan_back |-> scan_back ]])
    /\ UNCHANGED << image, input, jump, forked, hook, pair, dbg, transport >>

\* a jump whose probe never ends keeps the engine inside the handler
Jumped(e, target) ==
    IF target < 0 THEN [e EXCEPT !.pc = "spin"] ELSE [e EXCEPT !.index = target]

\* index_jump or hash_jump up to the discriminant; kind is "index" or "hash"
JumpBegin(kind) ==
    LET e == Fetched
        r == GetInputValue(input, e, InputType(Instr), LexerType(Instr))
    IN IF r.call
       THEN CallScanner([r.e EXCEPT !.cont =
                [ kind |-> kind, cur |-> r.e.tokens[r.target], target |-> r.target,
                  instr |-> Instr, index |-> e.index, ssp |-> BC(bytecode, e.index),
                  start |-> 0, end |-> 0, scan_back |-> FALSE ]])
       ELSE Commit(Jumped(r.e, IF kind = "index"
                                THEN IndexJumpTarget(bytecode, e.index, Instr, r.value)
                                ELSE HashJumpTarget(bytecode, e.index, Instr, r.value)))

\* the dispatch with a case 8 that ends the block as case 0 does
DoIndexJump_NoopEndsBlock ==
    /\ \/ Executing(9) /\ JumpBegin("index")
       \/ Executing(8) /\ Commit([Fetched EXCEPT !.pc = "loop", !.fail_mode = Pass])
    /\ UNCHANGED << image, input, jump, forked, hook, pair, dbg, transport >>

\* case 8 (NOOP, falls through) and case 9: INDEX_JUMP
DoIndexJump ==
    /\ Executing(8) \/ Executing(9)
    /\ JumpBegin("index")
    /\ UNCHANGED << image, input, jump, forked, hook, pair, dbg, transport >>

\* case 10: HASH_JUMP
DoHashJump ==
    /\ Executing(10)
    /\ JumpBegin("hash")
    /\ UNCHANGED << image, input, jump, forked, hook, pair, dbg, transport >>

\* case 11: PUSH_FAIL_STATE
DoPushFailState ==
    /\ Executing(11)
    /\ Commit(PushFailState(Fetched, Instr))
    /\ UNCHANGED << image, input, jump, forked, hook, pair, dbg, transport >>

\* case 12: REPEAT
DoRepeat ==
    /\ Executing(12)
    /\ Commit(Repeat(Fetched, Fetched.index, Instr))
    /\ UNCHANGED << image, input, jump, forked, hook, pair, dbg, transport >>

\* case 13: TRY_LAZY
DoTryLazy ==
    /\ Executing(13)
    /\ Commit(TryLazy(Fetched, Fetched.index, Instr))
    /\ UNCHANGED << image, input, jump, forked, hook, pair, dbg, transport >>

\* case 14: ASSERT_CONSUME
DoAssertConsume ==
    /\ Executing(14)
    /\ Commit(AssertConsume(input, Fetched, Fetched.index, Instr))
    /\ UNCHANGED << image, input, jump, forked, hook, pair, dbg, transport >>

\* case 15: RETURN
DoReturn ==
    /\ Executing(15)
    /\ Commit([Fetched EXCEPT !.pc = "loop",
                              !.fail_mode = AdvancedReturn(Instr, Top.fail_mode)])
    /\ UNCHANGED << image, input, jump, forked, hook, pair, dbg, transport >>

\* the driver loop pops one stack entry
\* peek calling the hook only for the instance whose embedder installed it
Peek_OwnInstanceOnly(e) ==
    IF hook.peek = pair.active /\ PopState(e).pc = "exec"
    THEN [hook EXCEPT !.seen[hook.peek] =
              Append(@, [state |-> e.stack[Len(e.stack)].state,
                         iterator |-> pair.active,
                         depth |-> Depth])]
    ELSE hook

\* StateIterator.peek (lines 375-377), called before a block is executed
\* (line 244): the installed hook receives the state and the engine
Peek(e) ==
    IF hook.peek # "default" /\ PopState(e).pc = "exec"
    THEN [hook EXCEPT !.seen[hook.peek] =
              Append(@, [state |-> e.stack[Len(e.stack)].state,
                         iterator |-> pair.active,
                         depth |-> Depth])]
    ELSE hook

\* one iteration of the loop of start(); the engine a DebugIterator steps
\* is not run by start(), the scanner engines below it are. The iterations
\* are counted where start() is run for comparison with a chain of snapshots.
DriverPop ==
    /\ status = "running"
    /\ Top.pc = "loop"
    /\ Len(Top.stack) >= 1
    /\ Depth > 1 \/ dbg.mode = "start"
    /\ Commit(PopState(Top))
    /\ hook' = Peek(Top)
    /\ dbg' = IF Depth = 1 /\ dbg.chain # << >> THEN [dbg EXCEPT !.iterations = @ + 1] ELSE dbg
    /\ UNCHANGED << image, input, jump, forked, pair, transport >>

\* the driver loop of the caller's engine finds the stack empty
DriverFinalize ==
    /\ status = "running"
    /\ dbg.mode = "start"
    /\ Depth = 1
    /\ Top.pc = "loop"
    /\ Len(Top.stack) < 1
    /\ out' = Append(out, Finalize(input, Top))
    /\ frames' = << [Top EXCEPT !.pc = "done"] >>
    /\ status' = "done"
    /\ UNCHANGED << image, input, jump, forked, hook, pair, dbg, transport >>

\* the continuation of a caller whose reader the scanner engine advanced
Resume_SharedReader(e, cur) ==
    LET c == [e.cont EXCEPT !.cur = cur]
        moved == [e EXCEPT !.cursor = cur.byte_offset + cur.byte_length]
    IN CASE c.kind = "scan" -> ScanToResume(moved, c)
         [] c.kind = "index" ->
              [ call |-> FALSE,
                e |-> [ Jumped([moved EXCEPT !.tokens[c.target] = cur],
                               IndexJumpTarget(bytecode, c.index, c.instr, cur.type))
                        EXCEPT !.pc = IF @ = "spin" THEN @ ELSE "exec", !.cont = NoCont ] ]
         [] OTHER ->
              [ call |-> FALSE,
                e |-> [ Jumped([moved EXCEPT !.tokens[c.target] = cur],
                               HashJumpTarget(bytecode, c.index, c.instr, cur.type))
                        EXCEPT !.pc = IF @ = "spin" THEN @ ELSE "exec", !.cont = NoCont ] ]

\* the caller's continuation once scanner() has returned the token cur
Resume(e, cur) ==
    LET c == [e.cont EXCEPT !.cur = cur]
    IN CASE c.kind = "scan" -> ScanToResume(e, c)
         [] c.kind = "index" ->
              [ call |-> FALSE,
                e |-> [ Jumped([e EXCEPT !.tokens[c.target] = cur],
                               IndexJumpTarget(bytecode, c.index, c.instr, cur.type))
                        EXCEPT !.pc = IF @ = "spin" THEN @ ELSE "exec", !.cont = NoCont ] ]
         [] OTHER ->
              [ call |-> FALSE,
                e |-> [ Jumped([e EXCEPT !.tokens[c.target] = cur],
                               HashJumpTarget(bytecode, c.index, c.instr, cur.type))
                        EXCEPT !.pc = IF @ = "spin" THEN @ ELSE "exec", !.cont = NoCont ] ]

\* a scanner engine finds its stack empty: it emits TOKEN to the handler of
\* scanner() (lines 953-1001), which restarts it after a skipped token and
\* otherwise hands the token to the caller, whose handler then continues
ScannerYield ==
    /\ status = "running"
    /\ Depth > 1
    /\ Top.pc = "loop"
    /\ Len(Top.stack) < 1
    /\ LET scanner == Top
           caller == frames[Depth - 1]
           token == ScannerToken(scanner)
           current_token == caller.cont.cur
       IN IF token.type = skipped_scan_prod
          THEN LET cur == [current_token EXCEPT
                              !.codepoint_offset = current_token.codepoint_offset + token.codepoint_length,
                              !.byte_offset = current_token.byte_offset + token.byte_length,
                              !.line_offset = token.line_offset,
                              !.line_number = token.line_number]
                   t0 == [scanner.tokens[2] EXCEPT
                              !.line_number = ReaderLineCount(input, scanner.cursor),
                              !.line_offset = ReaderLineOffset(input, scanner.cursor)]
               IN frames' = [frames EXCEPT
                      ![Depth - 1].cont.cur = cur,
                      ![Depth] = [scanner EXCEPT !.stack = StackReset(scanner.entry),
                                                 !.tokens[1] = t0,
                                                 !.fail_mode = FALSE,
                                                 !.last_good_state = -1]]
          ELSE LET cur == [current_token EXCEPT
                              !.codepoint_length = token.codepoint_length,
                              !.byte_length = token.byte_length,
                              !.type = token.type,
                              !.line_offset = token.line_offset,
                              !.line_number = token.line_number]
                   r == Resume(caller, cur)
               IN frames' = [i \in 1..(IF r.call THEN Depth ELSE Depth - 1) |->
                                IF i < Depth - 1 THEN frames[i]
                                ELSE IF i = Depth - 1
                                THEN r.e
                                ELSE ScannerEngine(r.e, r.e.cont.cur, r.e.cont.ssp)]
    /\ UNCHANGED << image, input, out, status, jump, forked, hook, pair, dbg, transport >>

\* ------------------------------------------------------- specification

\* the characters of the inputs, as their UTF-8 bytes
Chars == { << CH_x >>, << CH_y >>, << CH_z >>, << CH_nl >>, << UTF8_LEAD, UTF8_CONT >> }

RECURSIVE Flatten(_)
Flatten(ss) == IF Len(ss) = 0 THEN << >> ELSE Head(ss) \o Flatten(Tail(ss))

Inputs == { Flatten(cs) : cs \in UNION { [1..n -> Chars] : n \in 0..MaxInputLen } }

\* the sessions: image, entry pointer, role and goal production
Configs ==
    { [image |-> "XY_ASSERT", entry |-> P26 + 3, SCANNER |-> FALSE, root |-> -1],
      [image |-> "XY_ASSERT", entry |-> P26 + 3, SCANNER |-> FALSE, root |-> 1],
      [image |-> "XY_INDEX", entry |-> P26 + 3, SCANNER |-> FALSE, root |-> -1],
      [image |-> "XY_INDEX", entry |-> P26 + 3, SCANNER |-> FALSE, root |-> 1],
      [image |-> "LIST", entry |-> P26 + 3, SCANNER |-> FALSE, root |-> -1],
      [image |-> "LIST", entry |-> P26 + 25, SCANNER |-> TRUE, root |-> -1],
      [image |-> "RECOVER", entry |-> P26 + 3, SCANNER |-> FALSE, root |-> -1],
      [image |-> "PEEK", entry |-> P26 + 3, SCANNER |-> FALSE, root |-> -1],
      [image |-> "MISC", entry |-> P26 + 3, SCANNER |-> FALSE, root |-> 8],
      [image |-> "MISC", entry |-> P26 + 40, SCANNER |-> TRUE, root |-> -1],
      [image |-> "OPS", entry |-> P26 + 3, SCANNER |-> FALSE, root |-> -1],
      [image |-> "OPS", entry |-> P26 + 8, SCANNER |-> FALSE, root |-> -1],
      [image |-> "OPS", entry |-> P26 + 15, SCANNER |-> FALSE, root |-> -1],
      [image |-> "OPS", entry |-> P26 + 19, SCANNER |-> FALSE, root |-> -1],
      [image |-> "OPS", entry |-> P26 + 26, SCANNER |-> FALSE, root |-> -1],
      [image |-> "OPS", entry |-> P26 + 26, SCANNER |-> TRUE, root |-> -1],
      [image |-> "OPS", entry |-> P26 + 31, SCANNER |-> FALSE, root |-> -1] }

Init ==
    \E cfg \in Configs, inp \in Inputs :
        /\ image = cfg.image
        /\ input = inp
        /\ frames = << NewEngine(inp, 0, cfg.entry, cfg.SCANNER, NewToken, cfg.root) >>
        /\ out = << >>
        /\ status = "running"
        /\ jump = NoJump
        /\ forked = << >>
        /\ hook = NoHook
        /\ pair = NoPair
        /\ dbg = NoDebug
        /\ transport = NoTransport

Next ==
    \/ DriverPop
    \/ DriverFinalize
    \/ ScannerYield
    \/ DoPass
    \/ DoConsume
    \/ DoGoto
    \/ DoSetProduction
    \/ DoReduce
    \/ DoSetToken
    \/ DoFork
    \/ DoScanTo
    \/ DoIndexJump
    \/ DoHashJump
    \/ DoPushFailState
    \/ DoRepeat
    \/ DoTryLazy
    \/ DoAssertConsume
    \/ DoReturn

Spec == Init /\ [][Next]_vars

\* start() is a synchronous loop: whenever a step is possible one is taken
FairSpec == Spec /\ WF_vars(Next)

\* ------------------------------------------------- two engine instances

\* Two instances A and B are constructed over the same image for the same
\* session, each with a reader, a stack, tokens, a sink and a delegate of
\* its own; the variables frames, out, status, forked and dbg.iterations
\* hold the instance that runs, pair.idle the one set aside.

\* how often the embedder turns from one instance to the other
MaxSwitches == 2

\* the sessions run in pairs
PairConfigs == { cfg \in Configs : cfg.image \in { "RECOVER", "MISC" } /\ ~cfg.SCANNER }

\* the inputs run in pairs
PairInputs == { << CH_x, CH_x, CH_y >>, << CH_x, CH_z >> }

PairInit ==
    \E cfg \in PairConfigs, inp \in PairInputs :
        /\ image = cfg.image
        /\ input = inp
        /\ frames = << NewEngine(inp, 0, cfg.entry, cfg.SCANNER, NewToken, cfg.root) >>
        /\ out = << >>
        /\ status = "running"
        /\ jump = NoJump
        /\ forked = << >>
        /\ hook = NoHook
        /\ pair = [active |-> "A",
                   switches |-> 0,
                   idle |-> [frames |-> << NewEngine(inp, 0, cfg.entry, cfg.SCANNER, NewToken, cfg.root) >>,
                             out |-> << >>, status |-> "running", forked |-> << >>,
                             iterations |-> 0]]
        /\ dbg = NoDebug
        /\ transport = NoTransport

\* the instance that is set aside
Other(o) == IF o = "A" THEN "B" ELSE "A"

\* the instance that runs is between two iterations of its driver loop or
\* at its end, where the code of the embedder can run
AtBoundary ==
    /\ Depth = 1
    /\ Top.pc \in { "loop", "done" }

\* assign_peek (lines 17-19), called by the embedder of instance o with its
\* hook, before that hook has been called
AssignPeek(o) ==
    /\ pair.idle.status # "none"
    /\ AtBoundary
    /\ hook.peek # o
    /\ hook.seen[o] = << >>
    /\ hook' = [hook EXCEPT !.peek = o]
    /\ UNCHANGED << image, input, frames, out, status, jump, forked, pair, dbg, transport >>

\* the embedder turns to the other instance: from the first one between
\* two iterations of its driver loop, and back when the second has ended
Switch ==
    /\ pair.idle.status = "running"
    /\ pair.switches < MaxSwitches
    /\ AtBoundary
    /\ pair.switches > 0 => status # "running"
    /\ frames' = pair.idle.frames
    /\ out' = pair.idle.out
    /\ status' = pair.idle.status
    /\ forked' = pair.idle.forked
    /\ dbg' = [dbg EXCEPT !.iterations = pair.idle.iterations]
    /\ pair' = [active |-> Other(pair.active),
                switches |-> pair.switches + 1,
                idle |-> [frames |-> frames, out |-> out, status |-> status,
                          forked |-> forked, iterations |-> dbg.iterations]]
    /\ UNCHANGED << image, input, jump, hook, transport >>

PairNext ==
    \/ Next
    \/ Switch
    \/ \E o \in { "A", "B" } : AssignPeek(o)

PairSpec == PairInit /\ [][PairNext]_vars

\* ------------------------------------------------------ DebugIterator

\* frames[1] is the DebugIterator instance; dbg.chain[1] is the snapshot its
\* constructor makes and dbg.chain[k + 1] the one next_state returned for
\* dbg.chain[k]; out holds the actions of the snapshot under construction.
\*
\* A snapshot holds its token list, its reader and its stack as objects.
\* Objects are told apart by a number: dbg.objs names the three objects the
\* instance holds in this.tokens, this.reader and this.stack, the field obj
\* of a snapshot the three it holds, 0 standing for an object nothing else
\* refers to; dbg.fresh is the first number not yet given to an object. A
\* snapshot stores the contents its objects had when it was made; what a
\* reader of the snapshot finds is Observed below.

\* the actions of a snapshot as read after next_state has returned: a SHIFT
\* holds the lookahead token object itself (line 281), which consume() and
\* the instructions after it go on writing
HeldActions(actions, e) ==
    [i \in 1..Len(actions) |->
        IF actions[i].type = "SHIFT"
        THEN [actions[i] EXCEPT !.token = e.tokens[2]]
        ELSE actions[i]]

\* the snapshot next_state returns (lines 1233-1244 and 1321-1327)
DebugState(e, objs, state, active, fail_mode, last_good_state, actions) ==
    [ state |-> state,
      ACTIVE |-> active,
      stack |-> e.stack,
      tokens |-> e.tokens,
      symbol_accumulator |-> -1,
      production_id |-> e.production_id,
      fail_mode |-> fail_mode,
      last_good_state |-> last_good_state,
      byte_reader |-> e.cursor,
      actions |-> HeldActions(actions, e),
      obj |-> [tokens |-> objs.tokens, reader |-> objs.reader, stack |-> 0] ]

\* the snapshot the constructor makes (lines 1196-1207)
InitialDebugState(e) ==
    [ state |-> e.entry % state_index_mask,
      ACTIVE |-> TRUE,
      stack |-> e.stack,
      tokens |-> e.tokens,
      symbol_accumulator |-> e.symbol_accumulator,
      production_id |-> -1,
      fail_mode |-> FALSE,
      last_good_state |-> -1,
      byte_reader |-> e.cursor,
      actions |-> << >>,
      obj |-> NoDebug.objs ]

\* the instance once next_state has taken over prev_state (lines 1225-1231):
\* reader, production_id, tokens and stack; symbol_accumulator is left as
\* the last call left it
Restored(e, prev_state) ==
    [e EXCEPT !.cursor = prev_state.byte_reader,
              !.production_id = prev_state.production_id,
              !.tokens = prev_state.tokens,
              !.stack = prev_state.stack,
              !.fail_mode = prev_state.fail_mode,
              !.last_good_state = prev_state.last_good_state,
              !.pc = "loop",
              !.em = << >>]

\* the objects the instance holds once next_state has taken over
\* prev_state with the token list and the tokens themselves kept, not copied
Adopted_TokensByReference(prev_state, fresh) ==
    [tokens |-> prev_state.obj.tokens, reader |-> fresh + 1, stack |-> fresh + 2]

\* the objects the instance holds once next_state has taken over
\* prev_state (lines 1228-1231): a clone of its reader, a new list of copies
\* of its tokens, a clone of its stack
Adopted(prev_state, fresh) ==
    [tokens |-> fresh, reader |-> fresh + 1, stack |-> fresh + 2]

\* snapshot s as its holder reads it while the instance is e and holds the
\* objects objs: an object the instance holds as well has the contents the
\* instance has given it, and a Shift of s holds a token of its token list
Observed(s, e, objs) ==
    LET tokens == IF s.obj.tokens = objs.tokens THEN e.tokens ELSE s.tokens
    IN [s EXCEPT !.tokens = tokens,
                 !.byte_reader = IF s.obj.reader = objs.reader THEN e.cursor ELSE @,
                 !.stack = IF s.obj.stack = objs.stack THEN e.stack ELSE @,
                 !.actions = IF s.obj.tokens = objs.tokens THEN HeldActions(@, e) ELSE @]

\* the snapshots with the contents their objects have when the instance
\* lets go of the objects it holds
Settled(chain, e, objs) == [k \in 1..Len(chain) |-> Observed(chain[k], e, objs)]

\* the snapshot returned for d.chain[from] goes to the end of the chain
\* when that was its last snapshot and is a second result otherwise
Returned(d, from, snapshot) ==
    IF from = Len(d.chain)
    THEN [d EXCEPT !.chain = Append(@, snapshot), !.from = 0]
    ELSE [d EXCEPT !.replay = << [of |-> from, state |-> snapshot] >>, !.from = 0]

\* the sessions of a DebugIterator, which is never a scanner (line 1193)
DebugConfigs == { cfg \in Configs : ~cfg.SCANNER }

DebugInit ==
    \E cfg \in DebugConfigs, inp \in Inputs :
        LET e == NewEngine(inp, 0, cfg.entry, FALSE, NewToken, cfg.root)
        IN /\ image = cfg.image
           /\ input = inp
           /\ frames = << e >>
           /\ out = << >>
           /\ status = "running"
           /\ jump = NoJump
           /\ forked = << >>
           /\ hook = NoHook
           /\ pair = NoPair
           /\ dbg = [NoDebug EXCEPT !.mode = "debug", !.chain = << InitialDebugState(e) >>]
           /\ transport = NoTransport

\* next_state(dbg.chain[i], root) up to the call of instruction_executor,
\* or to its return when no block is executed (lines 1217-1319)
DebugCall(i) ==
    /\ dbg.mode = "debug"
    /\ status = "running"
    /\ dbg.from = 0
    /\ dbg.replay = << >>
    /\ i = Len(dbg.chain) => dbg.chain[i].ACTIVE
    /\ LET prev_state == Observed(dbg.chain[i], frames[1], dbg.objs)
           e == Restored(frames[1], prev_state)
           objs == Adopted(prev_state, dbg.fresh)
           d == [dbg EXCEPT !.chain = Settled(@, frames[1], dbg.objs),
                            !.objs = objs,
                            !.fresh = @ + 3]
           n == Len(e.stack)
       IN IF n < 1
          THEN /\ frames' = << e >>
               /\ out' = << >>
               /\ dbg' = Returned(d, i, DebugState(e, objs, 0, FALSE, FALSE, -1, << Finalize(input, e) >>))
          ELSE LET state == e.stack[n].state
                   popped == [e EXCEPT !.stack = SubSeq(e.stack, 1, n - 1)]
                   mask_gate == IF e.fail_mode THEN normal_state_mask * 2 ELSE normal_state_mask
                   last_good_state == IF state # 0 /\ ~e.fail_mode THEN state ELSE -1
               IN IF state # 0 /\ Bit(state, mask_gate)
                  THEN /\ frames' = << [popped EXCEPT !.pc = "exec",
                                                     !.index = state % state_index_mask,
                                                     !.recover_data = e.stack[n].meta] >>
                       /\ out' = << >>
                       /\ dbg' = [d EXCEPT !.from = i,
                                           !.state = state % state_index_mask,
                                           !.last_good_state = last_good_state]
                  ELSE /\ frames' = << popped >>
                       /\ out' = << >>
                       /\ dbg' = Returned(d, i, DebugState(popped, objs, state % state_index_mask, TRUE,
                                                           FALSE, last_good_state, << >>))
    /\ UNCHANGED << image, input, status, jump, forked, hook, pair, transport >>

\* next_state from the return of instruction_executor on (lines 1315-1327)
DebugReturn ==
    /\ dbg.mode = "debug"
    /\ status = "running"
    /\ dbg.from # 0
    /\ Depth = 1
    /\ Top.pc = "loop"
    /\ dbg' = Returned(dbg, dbg.from, DebugState(Top, dbg.objs, dbg.state, TRUE, Top.fail_mode,
                                                 dbg.last_good_state, out))
    /\ out' = << >>
    /\ UNCHANGED << image, input, frames, status, jump, forked, hook, pair, transport >>

\* the same session run by start() (lines 163-254), once the chain of
\* snapshots has reached one that is not ACTIVE
StartReference ==
    /\ dbg.mode = "debug"
    /\ status = "running"
    /\ dbg.from = 0
    /\ dbg.replay = << >>
    /\ ~dbg.chain[Len(dbg.chain)].ACTIVE
    /\ frames' = << NewEngine(input, 0, Top.entry, FALSE, NewToken, Top.root) >>
    /\ out' = << >>
    /\ dbg' = [dbg EXCEPT !.mode = "start", !.iterations = 0]
    /\ UNCHANGED << image, input, status, jump, forked, hook, pair, transport >>

DebugNext ==
    \/ \E i \in 1..Len(dbg.chain) : DebugCall(i)
    \/ DebugReturn
    \/ StartReference
    \/ Next

DebugSpec == DebugInit /\ [][DebugNext]_vars

\* ------------------------------------------- the dispatch handlers alone

\* the table under test
Table == CHOOSE tb \in JumpTables : tb.image = image

\* the discriminants tried on a table: a range around the small keys, the
\* keys themselves and the values that agree with a key in their low 11 bits
Discriminants(tb) ==
    ((-2)..MaxDiscriminant)
        \cup DOMAIN tb.map
        \cup { k + P11 : k \in DOMAIN tb.map }

JumpInit ==
    \E tb \in JumpTables : \E d \in Discriminants(tb) :
        /\ image = tb.image
        /\ input = << >>
        /\ frames = << >>
        /\ out = << >>
        /\ status = "tables"
        /\ jump = [d |-> d, index_target |-> -1, hash_target |-> -1]
        /\ forked = << >>
        /\ hook = NoHook
        /\ pair = NoPair
        /\ dbg = NoDebug
        /\ transport = NoTransport

\* index_jump (lines 835-868) on the discriminant jump.d
JumpIndex ==
    /\ status = "tables"
    /\ jump.index_target = -1
    /\ jump' = [jump EXCEPT !.index_target =
                    IndexJumpTarget(bytecode, Table.index_at + 1,
                                    BC(bytecode, Table.index_at), jump.d)]
    /\ UNCHANGED << image, input, frames, out, status, forked, hook, pair, dbg, transport >>

\* hash_jump (lines 780-834) on the discriminant jump.d
JumpHash ==
    /\ status = "tables"
    /\ jump.hash_target = -1
    /\ jump' = [jump EXCEPT !.hash_target =
                    HashJumpTarget(bytecode, Table.hash_at + 1,
                                   BC(bytecode, Table.hash_at), jump.d)]
    /\ UNCHANGED << image, input, frames, out, status, forked, hook, pair, dbg, transport >>

JumpNext == JumpIndex \/ JumpHash

JumpSpec == JumpInit /\ [][JumpNext]_vars

\* ------------------------------------ resolutions over skipped tokens

\* The sessions of IMG_SKIP, whose scanner region yields skipped tokens
\* with and without length: scanner() restarts its engine after each of
\* them (lines 952-973).
SkipInit ==
    \E inp \in Inputs :
        /\ image = "SKIP"
        /\ input = inp
        /\ frames = << NewEngine(inp, 0, P26 + 3, FALSE, NewToken, -1) >>
        /\ out = << >>
        /\ status = "running"
        /\ jump = NoJump
        /\ forked = << >>
        /\ hook = NoHook
        /\ pair = NoPair
        /\ dbg = NoDebug
        /\ transport = NoTransport

\* the steps of start() and of the instructions IMG_SKIP holds
SkipNext ==
    \/ DriverPop
    \/ DriverFinalize
    \/ ScannerYield
    \/ DoPass
    \/ DoConsume
    \/ DoGoto
    \/ DoSetToken
    \/ DoHashJump
    \/ DoReturn

SkipSpec == SkipInit /\ [][SkipNext]_vars

\* start() and the loop of scanner() around it are synchronous loops:
\* whenever a step is possible one is taken
SkipFairSpec == SkipSpec /\ WF_vars(SkipNext)

\* ----------------------------------------------------- TransportHandler

\* The handler of the debugger page (lab/index.ts, lines 319-680). The
\* fields kept are those update and step decide on: parser (whether one is
\* live, and the batches of steps its next() has still to return),
\* debugger_offset, debugger_steps (the type of each step), PARSING,
\* allow_play, step_to_next_action, input (whether the text is non-empty) and
\* whether the click listeners are installed. pending holds the events the
\* handler has emitted and update has not been called with yet; last is the
\* record of the latest call of update: the event t, the value of
\* step_to_next_action at each call of step, the number of times allow_play
\* was inverted, allow_play at entry, and the flow nodes returned. The
\* fields that only feed the display (cst_nodes, last_step, the state
\* sources and offsets) are left out.

\* the batches parser.next() returns, as the types of their steps
Batches ==
    { << "ExecuteInstruction" >>,
      << "ExecuteInstruction", "Shift" >>,
      << "ExecuteState", "ExecuteInstruction" >>,
      << "Complete" >> }

\* the number of batches a parser returns before next() returns no array
MaxBatches == 2

Scripts == UNION { [1..n -> Batches] : n \in 0..MaxBatches }

\* the DebuggerData passed along with an event: which of its parts are set
\* (doc: the text of the editor is not empty); complete, or with one part
\* missing
DebuggerData ==
    { data \in [parser_editor : BOOLEAN, doc : BOOLEAN, bytecode : BOOLEAN, db : BOOLEAN, states : BOOLEAN] :
        Cardinality({ part \in DOMAIN data : ~data[part] }) <= 1 }

\* this.emit(t)
FlowEmit(h, t) == [h EXCEPT !.pending = @ \cup { t }]

\* the loop of step over debugger_steps (lines 450-603)
RECURSIVE StepLoop(_)
StepLoop(h) ==
    LET offset == h.debugger_offset
        steps == h.debugger_steps
        on == [h EXCEPT !.debugger_offset = offset + 1]
    IN  IF offset < 0 \/ offset >= Len(steps)
        THEN h
        ELSE LET type == steps[offset + 1]
             IN  CASE type = "ExecuteState" -> StepLoop(on)
                   [] type = "ExecuteInstruction" ->
                        IF h.step_to_next_action
                        THEN StepLoop(on)
                        ELSE IF offset + 1 < Len(steps) /\ steps[offset + 2] \in { "Shift", "Reduce", "Skip" }
                             THEN StepLoop(on)
                             ELSE h
                   [] type \in { "Skip", "Shift", "Reduce" } -> h
                   [] type \in { "Complete", "Error" } ->
                        [FlowEmit(h, "TransportHandler_disableTransportButtons") EXCEPT !.PARSING = FALSE]
                   [] type = "EndOfFile" -> [h EXCEPT !.PARSING = FALSE]
                   [] type \in { "Undefined", "ShiftToken" } -> h
                   [] OTHER -> StepLoop(on)

\* step(data) (lines 429-604); the call is recorded in last.calls
Step(h, data) ==
    LET called == [h EXCEPT !.last.calls = Append(@, h.step_to_next_action)]
    IN  IF ~h.parser.live \/ ~data.db \/ ~data.bytecode \/ ~data.states \/ ~data.parser_editor \/ ~h.input
        THEN called
        ELSE LET offset == h.debugger_offset + 1
                 fetched == offset >= Len(h.debugger_steps) /\ h.parser.script # << >>
                 steps == IF fetched THEN h.debugger_steps \o Head(h.parser.script) ELSE h.debugger_steps
                 parser == IF fetched THEN [h.parser EXCEPT !.script = Tail(@)] ELSE h.parser
             IN  StepLoop([called EXCEPT !.parser = parser,
                                         !.debugger_steps = steps,
                                         !.debugger_offset = IF offset < Len(steps) - 1 THEN offset ELSE Len(steps) - 1])

\* resetData(data) (lines 350-370)
ResetData(h, data) ==
    [h EXCEPT !.debugger_offset = -1,
              !.debugger_steps = << >>,
              !.PARSING = FALSE,
              !.allow_play = FALSE,
              !.step_to_next_action = FALSE,
              !.input = data.parser_editor /\ data.doc]

\* return nodes
Return(h, nodes) == [h EXCEPT !.last.returned = nodes]

base_return == << "TransportHandler", "EnableRestartButton" >>

\* the cases of the switch of update (lines 608-678), from the last one up:
\* a case without a return runs on into the case below it
CaseConfigChanged(h) ==
    Return([h EXCEPT !.parser = NoParser, !.listening = FALSE],
           << "DisableTransportButtons", "DisableRestartButton" >>)

CaseDisableTransportButtons(h) == Return(h, base_return \o << "DisableTransportButtons" >>)

CaseInputChanged(h) == Return(h, base_return)

CasePlay(h, data) ==
    CaseInputChanged(IF h.allow_play /\ h.PARSING
                     THEN FlowEmit(Step(h, data), "TransportHandler_play")
                     ELSE [h EXCEPT !.allow_play = FALSE])

CaseStep(h, data) == CasePlay(IF h.PARSING THEN Step(h, data) ELSE h, data)

CaseTogglePlay(h, data) ==
    LET toggled == [h EXCEPT !.allow_play = ~@, !.last.toggles = @ + 1]
    IN  CaseStep(IF toggled.allow_play THEN FlowEmit(toggled, "TransportHandler_play") ELSE toggled, data)

CaseStepAction(h, data) ==
    CaseTogglePlay([Step([h EXCEPT !.step_to_next_action = TRUE], data) EXCEPT !.step_to_next_action = FALSE], data)

CaseStepInstruction(h, data) ==
    CaseStepAction(Step([h EXCEPT !.step_to_next_action = FALSE], data), data)

\* script: what the new parser will return; thrown: where the construction
\* of the parser throws ("new", "init") or "none". A parser whose init has
\* thrown stays assigned and returns no steps
CaseRestartParser(h, data, script, thrown) ==
    LET deleted == [h EXCEPT !.parser = NoParser]
        made == [deleted EXCEPT !.parser = [live |-> TRUE, script |-> script]]
    IN  IF ~data.parser_editor THEN Return(deleted, base_return \o << "DebuggerError" >>)
        ELSE IF ~data.doc THEN Return(deleted, base_return \o << "DebuggerError" >>)
        ELSE IF ~data.bytecode THEN Return(deleted, base_return \o << "DebuggerError" >>)
        ELSE IF ~data.db THEN Return(deleted, base_return \o << "DebuggerError" >>)
        ELSE IF thrown = "new" THEN Return(deleted, base_return \o << "DebuggerError" >>)
        ELSE IF thrown = "init" THEN Return([made EXCEPT !.parser.script = << >>], base_return \o << "DebuggerError" >>)
        ELSE Return(ResetData([made EXCEPT !.debugger_offset = -1, !.PARSING = TRUE], data),
                    base_return \o << "EnableTransportButtons" >>)

CaseInit(h, data, script, thrown) == CaseRestartParser([h EXCEPT !.listening = TRUE], data, script, thrown)

\* the handler at the entry of update(t, data)
Entered(t) ==
    [transport EXCEPT !.pending = @ \ { t },
                      !.last = [NoUpdate EXCEPT !.t = t, !.allow_play = transport.allow_play]]

\* the engine variables, which the page does not touch
NoEngine == UNCHANGED << image, input, frames, out, status, jump, forked, hook, pair, dbg >>

\* update("init", data)
UpdateInit ==
    /\ status = "transport"
    /\ \E data \in DebuggerData, script \in Scripts, thrown \in { "none", "new", "init" } :
           transport' = CaseInit(Entered("init"), data, script, thrown)
    /\ NoEngine

\* a click on restart emits TransportHandler_restartParser (line 373), and
\* update is called with it
UpdateRestartParser ==
    /\ status = "transport"
    /\ transport.listening
    /\ \E data \in DebuggerData, script \in Scripts, thrown \in { "none", "new", "init" } :
           transport' = CaseRestartParser(Entered("TransportHandler_restartParser"), data, script, thrown)
    /\ NoEngine

\* a click on step (line 374)
UpdateStepInstruction ==
    /\ status = "transport"
    /\ transport.listening
    /\ \E data \in DebuggerData :
           transport' = CaseStepInstruction(Entered("TransportHandler_stepInstruction"), data)
    /\ NoEngine

\* a click on step-action (line 375)
UpdateStepAction ==
    /\ status = "transport"
    /\ transport.listening
    /\ \E data \in DebuggerData :
           transport' = CaseStepAction(Entered("TransportHandler_stepAction"), data)
    /\ NoEngine

\* a click on play (line 376)
UpdateTogglePlay ==
    /\ status = "transport"
    /\ transport.listening
    /\ \E data \in DebuggerData :
           transport' = CaseTogglePlay(Entered("TransportHandler_togglePlay"), data)
    /\ NoEngine

\* update("TransportHandler_step", data), sent by another node of the flow
UpdateStep ==
    /\ status = "transport"
    /\ \E data \in DebuggerData :
           transport' = CaseStep(Entered("TransportHandler_step"), data)
    /\ NoEngine

\* an emitted TransportHandler_play comes back
UpdatePlay ==
    /\ status = "transport"
    /\ "TransportHandler_play" \in transport.pending
    /\ \E data \in DebuggerData :
           transport' = CasePlay(Entered("TransportHandler_play"), data)
    /\ NoEngine

\* update("Input_changed", data)
UpdateInputChanged ==
    /\ status = "transport"
    /\ transport' = CaseInputChanged(Entered("Input_changed"))
    /\ NoEngine

\* an emitted TransportHandler_disableTransportButtons comes back
UpdateDisableTransportButtons ==
    /\ status = "transport"
    /\ "TransportHandler_disableTransportButtons" \in transport.pending
    /\ transport' = CaseDisableTransportButtons(Entered("TransportHandler_disableTransportButtons"))
    /\ NoEngine

\* update("db_deleted", data) or update("config_changed", data)
UpdateConfigChanged ==
    /\ status = "transport"
    /\ \E t \in { "db_deleted", "config_changed" } :
           transport' = CaseConfigChanged(Entered(t))
    /\ NoEngine

TransportInit ==
    /\ image = "XY_ASSERT"
    /\ input = << >>
    /\ frames = << >>
    /\ out = << >>
    /\ status = "transport"
    /\ jump = NoJump
    /\ forked = << >>
    /\ hook = NoHook
    /\ pair = NoPair
    /\ dbg = NoDebug
    /\ transport = NoTransport

TransportNext ==
    \/ UpdateInit
    \/ UpdateRestartParser
    \/ UpdateStepInstruction
    \/ UpdateStepAction
    \/ UpdateTogglePlay
    \/ UpdateStep
    \/ UpdatePlay
    \/ UpdateInputChanged
    \/ UpdateDisableTransportButtons
    \/ UpdateConfigChanged

TransportSpec == TransportInit /\ [][TransportNext]_vars

\* ------------------------------------------------------------ properties

TerminalTypes == { "ACCEPT", "ERROR", "TOKEN" }
Root == frames[1]
LastOut == out[Len(out)]

\* C1: a run of start() that returns has delivered exactly one terminal
\* action, as its last action: Accept or Error in parser role, Token in
\* scanner role; until it returns no terminal action has been delivered.
C1_OneTerminalLast ==
    /\ \A i \in 1..(Len(out) - 1) : out[i].type \notin TerminalTypes
    /\ status = "done" =>
          /\ Len(out) >= 1
          /\ LastOut.type \in (IF Root.SCANNER THEN { "TOKEN" } ELSE { "ACCEPT", "ERROR" })
    /\ status # "done" /\ Len(out) >= 1 => LastOut.type \notin TerminalTypes

C1_Witness ==
    /\ status = "done"
    /\ Len(out) >= 3
    /\ LastOut.type = "ERROR"
    /\ \E i \in 1..(Len(out) - 1) : out[i].type = "REDUCE"

C1_WitnessScanner ==
    /\ status = "done"
    /\ Root.SCANNER
    /\ out = << [type |-> "TOKEN", token |-> Root.tokens[1]] >>
    /\ Root.tokens[1].byte_length >= 2

\* C2: with the stack empty a parser decides in this order: fail_mode gives
\* Error; else the goal production reached gives Accept; else the input
\* exhausted at the lookahead's byte offset gives Accept; else Error.
C2_DecisionOrder ==
    (status = "done" /\ ~Root.SCANNER) =>
        LastOut.type =
            IF Root.fail_mode THEN "ERROR"
            ELSE IF Root.root >= 0 /\ Root.production_id = Root.root THEN "ACCEPT"
            ELSE IF OffsetAtEnd(input, Root.tokens[2].byte_offset) THEN "ACCEPT"
            ELSE "ERROR"

\* fail_mode wins over a reached goal at the end of the input
C2_Witness ==
    /\ status = "done"
    /\ ~Root.SCANNER
    /\ Root.fail_mode
    /\ Root.root >= 0
    /\ Root.production_id = Root.root
    /\ OffsetAtEnd(input, Root.tokens[2].byte_offset)
    /\ LastOut.type = "ERROR"

XYImages == { "XY_ASSERT", "XY_INDEX" }

\* out[i] is the Shift of the one-byte token at byte offset bo
IsShiftAt(i, bo) ==
    /\ out[i].type = "SHIFT"
    /\ out[i].token.byte_offset = bo
    /\ out[i].token.byte_length = 1
    /\ out[i].token.codepoint_offset = bo
    /\ out[i].token.codepoint_length = 1

\* C4: for the grammar A -> 'x' 'y' and the input "xy" the run emits exactly
\* Shift('x'), Shift('y'), Reduce{length 2, rule 0}, Accept, in this order.
C4_AcceptsXY ==
    (image \in XYImages /\ input = << CH_x, CH_y >> /\ status = "done") =>
        /\ Len(out) = 4
        /\ IsShiftAt(1, 0)
        /\ IsShiftAt(2, 1)
        /\ out[3].type = "REDUCE" /\ out[3].length = 2 /\ out[3].body = 0
        /\ out[4] = [type |-> "ACCEPT"]

C4_Witness ==
    /\ image = "XY_INDEX"
    /\ input = << CH_x, CH_y >>
    /\ status = "done"
    /\ Len(out) = 4
    /\ out[3].type = "REDUCE"

\* out is Shift('x') followed by an Error at offset 1 of length 1 with the
\* given token_type, and nothing else
ShiftThenError(token_type) ==
    /\ Len(out) = 2
    /\ IsShiftAt(1, 0)
    /\ out[2].type = "ERROR"
    /\ out[2].tk_type = token_type
    /\ out[2].tk_offset = 1
    /\ out[2].tk_length = 1

\* C5: for the grammar A -> 'x' 'y' and the input "xz" the run emits Shift('x')
\* and then an Error at offset 1 of length 1 and nothing else; the Error's
\* token_type is the type field of the lookahead token, which matching on a
\* class, codepoint or byte leaves 0.
C5_RejectsXZ ==
    (image \in XYImages /\ input = << CH_x, CH_z >> /\ status = "done") =>
        ShiftThenError(0)

C5_Witness ==
    /\ image = "XY_ASSERT"
    /\ input = << CH_x, CH_z >>
    /\ status = "done"
    /\ out[Len(out)].type = "ERROR"

\* C5 as stated: the Error's token_type is the character class of 'z'
C5_Original ==
    (image \in XYImages /\ input = << CH_x, CH_z >> /\ status = "done") =>
        ShiftThenError(ReaderClass(input, 1))

\* the lookahead token of the engine the caller started
Lookahead == Root.tokens[2]

\* the Shift actions of a sequence of actions carry non-decreasing byte offsets
ShiftsOrdered(actions) ==
    \A i \in 1..Len(actions) : \A j \in i..Len(actions) :
        (actions[i].type = "SHIFT" /\ actions[j].type = "SHIFT") =>
            actions[i].token.byte_offset <= actions[j].token.byte_offset

\* C6: in parser role no step moves the lookahead token's byte offset
\* backward, and the tokens of successive Shift actions have non-decreasing
\* byte offsets.
C6_LookaheadMonotone ==
    [][ ~Root.SCANNER =>
          /\ Lookahead'.byte_offset >= Lookahead.byte_offset
          /\ ShiftsOrdered(out') ]_vars

\* a run whose lookahead jumped over skipped input between two Shifts
C6_Witness ==
    /\ ~Root.SCANNER
    /\ Len(out) >= 3
    /\ \E i \in 1..Len(out) : \E j \in i..Len(out) :
          /\ out[i].type = "SHIFT"
          /\ out[j].type = "SHIFT"
          /\ out[j].token.byte_offset > out[i].token.byte_offset + out[i].token.byte_length
    /\ Lookahead.byte_offset = Len(input)

\* the actions a step delivers to the caller's sink
Delivered == SubSeq(out', Len(out) + 1, Len(out'))

\* the token before the lookahead (tokens[0]) of the engine the caller started
Current == Root.tokens[1]

RECURSIVE Consumes(_)
Consumes(actions) ==
    IF Len(actions) = 0 THEN 0
    ELSE (IF Head(actions).type = "SHIFT" THEN 1 ELSE 0) + Consumes(Tail(actions))

\* the sum of length - 1 over the Reduce actions in a sequence of actions
RECURSIVE Reduced(_)
Reduced(actions) ==
    IF Len(actions) = 0 THEN 0
    ELSE (IF Head(actions).type = "REDUCE" THEN Head(actions).length - 1 ELSE 0)
         + Reduced(Tail(actions))

\* C8: in parser role every step changes symbol_accumulator by the number of
\* consumes it performs minus the sum of length - 1 over the Reduces it emits,
\* for the fixed and for the dynamic encoding of REDUCE; hence since the last
\* GOTO the accumulator is #Consume - sum(length - 1), and nothing else moves it.
C8_Original ==
    [][ ~Root.SCANNER =>
          Root'.symbol_accumulator - Root.symbol_accumulator
              = Consumes(Delivered) - Reduced(Delivered) ]_vars

\* what the code keeps: the same for every step but a dynamic REDUCE, which
\* emits its Reduce and leaves symbol_accumulator as it is (lines 348-359)
C8_FixedOnly ==
    [][ (~Root.SCANNER /\ ~(Executing(4) /\ Depth = 1 /\ Instr % P16 = P16 - 1)) =>
          Root'.symbol_accumulator - Root.symbol_accumulator
              = Consumes(Delivered) - Reduced(Delivered) ]_vars

\* the engine is about to execute a REDUCE with the sentinel rule id
DynamicReduce == Executing(4) /\ Instr % P16 = P16 - 1

\* C9: every stack entry a GOTO pushes stores the symbol_accumulator of that
\* moment; popping an entry hands its snapshot to the block it starts, where it
\* stays; and a dynamic REDUCE emits Reduce{length = symbol_accumulator -
\* snapshot, rule id from the instruction}. The Reduce is thus a function of
\* the accumulator, the snapshot and the instruction alone.
C9_DynamicLength ==
    [][ (Depth = 1 /\ Depth' = 1) =>
          /\ Executing(2) =>
                /\ Len(Root'.stack) > Len(Root.stack)
                /\ \A k \in (Len(Root.stack) + 1)..Len(Root'.stack) :
                      Root'.stack[k].meta = Root.symbol_accumulator
          /\ (Root.pc = "loop" /\ Root'.pc = "exec") =>
                Root'.recover_data = Root.stack[Len(Root.stack)].meta
          /\ (Root.pc = "exec" /\ Root'.pc = "exec") =>
                Root'.recover_data = Root.recover_data
          /\ DynamicReduce =>
                /\ Len(Delivered) = 1
                /\ Delivered[1].type = "REDUCE"
                /\ Delivered[1].length = Root.symbol_accumulator - Root.recover_data
                /\ Delivered[1].body = Field(Instr, P16, 4096) ]_vars

\* a dynamic Reduce of one symbol, emitted in a block entered with snapshot 1
C9_Witness ==
    /\ Depth = 1
    /\ Root.pc = "exec"
    /\ Root.recover_data >= 1
    /\ Root.symbol_accumulator = Root.recover_data + 1
    /\ Len(out) >= 1
    /\ LastOut.type = "REDUCE"
    /\ LastOut.body = 3
    /\ LastOut.length = 1

\* the branch block at an address: the number its SET_PRODUCTION sets
BranchAt(address) == BC(bytecode, address) % P28
DefaultBranch == 0

\* C10: for every discriminant, an INDEX_JUMP table and a HASH_JUMP table
\* that encode one mapping with one default select the same branch block:
\* the block of d when d is a key, the default block when it is not.
C10_JumpsAgree ==
    (status = "tables" /\ jump.index_target # -1 /\ jump.hash_target # -1) =>
        /\ Opcode(BC(bytecode, jump.index_target)) = 3
        /\ Opcode(BC(bytecode, jump.hash_target)) = 3
        /\ BranchAt(jump.index_target) = BranchAt(jump.hash_target)
        /\ BranchAt(jump.hash_target) =
              IF jump.d \in DOMAIN Table.map THEN Table.map[jump.d] ELSE DefaultBranch

\* both handlers found the block of a key that sits behind another key in
\* its hash chain
C10_Witness ==
    /\ status = "tables"
    /\ image = "JT_EVEN"
    /\ jump.d = 10
    /\ jump.index_target # -1
    /\ jump.hash_target # -1
    /\ BranchAt(jump.hash_target) = 3

\* the end of the skipped region (newlines) that starts at a byte offset
RECURSIVE SkipEnd(_)
SkipEnd(offset) ==
    IF offset < Len(input) /\ input[offset + 1] = CH_nl THEN SkipEnd(offset + 1) ELSE offset

\* the token type the lexer region SC0 gives to a codepoint
LexType(cp) ==
    IF cp = CH_x THEN 2 ELSE IF cp = CH_y THEN 3 ELSE IF cp = 233 THEN 4 ELSE 0

\* C11: a scanner resolution over a skipped region followed by a token X
\* returns one token of type X that starts where the skipped region ends and
\* has the length of X alone; every skipped token advances the token being
\* resolved by its own length and restarts the nested engine from its entry,
\* and nothing of it reaches the caller's tokens or sink.
C11_SkipThenToken ==
    [][ (image \in { "LIST", "PEEK" } /\ Depth = 2 /\ Root.cont.kind \in { "hash", "index" }) =>
          LET target == Root.cont.target
              start == Root.tokens[target].byte_offset
              end == SkipEnd(start)
              cp == ReaderCodepoint(input, end)
          IN /\ (Depth' = 1 /\ LexType(cp) # 0) =>
                   /\ Root'.tokens[target].type = LexType(cp)
                   /\ Root'.tokens[target].byte_offset = end
                   /\ Root'.tokens[target].byte_length = ReaderCodepointByteLength(input, end)
                   /\ Root'.tokens[target].codepoint_length = 1
                   /\ Len(Root'.tokens) = Len(Root.tokens)
                   /\ out' = out
             /\ (Depth' = 2 /\ Top.pc = "loop" /\ Len(Top.stack) = 0) =>
                   /\ ScannerToken(Top).type = skipped_scan_prod
                   /\ ReaderByte(input, Root.cont.cur.byte_offset) = CH_nl
                   /\ Root'.cont.cur.byte_offset
                        = Root.cont.cur.byte_offset + ScannerToken(Top).byte_length
                   /\ ScannerToken(Top).byte_length = 1
                   /\ frames'[2].stack = StackReset(Top.entry)
                   /\ frames'[2].tokens[1].byte_offset = Root'.cont.cur.byte_offset
                   /\ Root'.tokens = Root.tokens
                   /\ out' = out ]_vars

\* the lookahead resolved to x behind two skipped newlines, nothing delivered
C11_Witness ==
    /\ image = "LIST"
    /\ input = << CH_nl, CH_nl, CH_x >>
    /\ Depth = 1
    /\ out = << >>
    /\ Lookahead.type = 2
    /\ Lookahead.byte_offset = 2
    /\ Lookahead.byte_length = 1

\* the address of the recovery block R of IMG_RECOVER
RecoverBlock == 13

\* the driver loop is in fail mode with an entry for R on the stack
RecoveryPending ==
    /\ image = "RECOVER"
    /\ status = "running"
    /\ Root.pc = "loop"
    /\ Root.fail_mode
    /\ \E i \in 1..Len(Root.stack) : Root.stack[i].state % state_index_mask = RecoverBlock

\* the block R has just been entered under fail mode
RecoveryRunning ==
    /\ image = "RECOVER"
    /\ Root.pc = "exec"
    /\ Root.index = RecoverBlock
    /\ Root.fail_mode

\* C12: once the engine is in fail mode with the entry PUSH_FAIL_STATE pushed
\* for R still on the stack, R is eventually executed under fail mode; and
\* after R either fail mode is cleared or the run ends with Error.
C12_RecoveryRuns ==
    /\ RecoveryPending ~> RecoveryRunning
    /\ RecoveryRunning ~> (~Root.fail_mode \/ (status = "done" /\ LastOut.type = "ERROR"))

\* R is entered under fail mode after a normal-only entry above it was
\* discarded: the input was shifted up to x and y failed to match
C12_Witness ==
    /\ RecoveryRunning
    /\ Len(out) = 1
    /\ Root.stack = << >>
    /\ Root.last_good_state % state_index_mask = 8

\* the engine at depth d is about to execute a PASS word
PassAt(d) ==
    /\ d = Depth
    /\ frames[d].pc = "exec"
    /\ Opcode(BC(bytecode, frames[d].index)) = 0

\* the engine at depth d is in the driver loop with a non-empty stack
PopAt(d) ==
    /\ frames[d].pc = "loop"
    /\ Len(frames[d].stack) > 0

\* C13 (amended): popping an entry, discarded or not, never changes fail_mode,
\* and an engine in fail mode leaves it exactly at the step that executes
\* PASS: pass() returns false and the driver stores it as the new fail_mode.
C13_FailModeUntilPass ==
    [][ \A d \in 1..Depth : d <= Depth' =>
          /\ PopAt(d) => frames'[d].fail_mode = frames[d].fail_mode
          /\ (frames[d].fail_mode /\ frames[d].pc # "loop") =>
                (frames'[d].fail_mode <=> ~PassAt(d)) ]_vars

\* C13 (as stated): a block that ends in PASS does not take the engine out
\* of fail mode
C13_Original ==
    [][ \A d \in 1..Depth : d <= Depth' =>
          ((frames[d].fail_mode /\ PassAt(d)) => frames'[d].fail_mode) ]_vars

\* the recovery block R was entered under fail mode after y failed to match,
\* it consumed a token and its PASS has cleared fail_mode
C13_Witness ==
    /\ image = "RECOVER"
    /\ Root.pc = "loop"
    /\ ~Root.fail_mode
    /\ Len(out) = 2
    /\ Root.last_good_state % state_index_mask = 8
    /\ Len(Root.stack) = 1
    /\ Root.stack[1].state % state_index_mask = 3

\* the entry on top of the stack of e does not pass the gate of e's mode
GateFails(e) ==
    LET state == e.stack[Len(e.stack)].state
        gate == IF e.fail_mode THEN P27 ELSE P26
    IN ~Bit(state, gate)

\* C14: a popped entry that fails the gate of the current mode is discarded:
\* the engine stays in the driver loop (no instruction executes), nothing is
\* emitted, and but for the stack, one entry shorter, and the diagnostic
\* last_good_state every field of the engine and every other engine is as
\* before.
C14_DiscardFrame ==
    [][ (status = "running" /\ Top.pc = "loop" /\ Len(Top.stack) >= 1 /\ GateFails(Top)) =>
          /\ Depth' = Depth
          /\ out' = out
          /\ status' = status
          /\ \A d \in 1..(Depth - 1) : frames'[d] = frames[d]
          /\ frames'[Depth] = [Top EXCEPT !.stack = SubSeq(Top.stack, 1, Len(Top.stack) - 1),
                                          !.last_good_state = frames'[Depth].last_good_state] ]_vars

\* the fail entry for R was popped in normal mode after the reduction and
\* discarded: the stack is empty and no further action was emitted
C14_Witness ==
    /\ image = "RECOVER"
    /\ Root.pc = "loop"
    /\ ~Root.fail_mode
    /\ Root.stack = << >>
    /\ Len(out) = 3
    /\ LastOut.type = "REDUCE"
    /\ Root.last_good_state % state_index_mask = RecoverBlock

\* the outer engine is about to pop an entry
RootPops ==
    /\ status = "running"
    /\ Depth = 1
    /\ Root.pc = "loop"
    /\ Len(Root.stack) >= 1

\* the entry the outer engine is about to pop
RootPopped == Root.stack[Len(Root.stack)].state

\* C15: last_good_state starts at -1 and is written by exactly the pops of a
\* non-zero entry made while not in fail mode, which store the entry (so it
\* is never updated in fail mode); every Error delivered carries it as
\* last_state, with the type, codepoint offset and codepoint length of the
\* lookahead token and the production_id of the moment of finalization.
C15_ErrorFields ==
    /\ Root.last_good_state = -1
    /\ [][ /\ Root'.last_good_state =
                 IF RootPops /\ ~Root.fail_mode /\ RootPopped # 0
                 THEN RootPopped
                 ELSE Root.last_good_state
           /\ \A i \in 1..Len(Delivered) : Delivered[i].type = "ERROR" =>
                 /\ Delivered[i].last_state = Root.last_good_state
                 /\ Delivered[i].tk_type = Lookahead.type
                 /\ Delivered[i].tk_offset = Lookahead.codepoint_offset
                 /\ Delivered[i].tk_length = Lookahead.codepoint_length
                 /\ Delivered[i].production = Root.production_id ]_vars

\* an Error whose last_state is the entry for S0 popped in normal mode,
\* after which the entry for R was popped in fail mode
C15_Witness ==
    /\ image = "RECOVER"
    /\ status = "done"
    /\ Root.fail_mode
    /\ LastOut.type = "ERROR"
    /\ LastOut.last_state % state_index_mask = 3
    /\ LastOut.tk_offset = 2
    /\ Len(out) = 3

\* the engine on top is about to execute a FORK instruction
Forking ==
    /\ status = "running"
    /\ Top.pc = "exec"
    /\ Opcode(Instr) = 6

\* the engine on top is at the null block, where fork() sends it on an
\* empty reply
AtNullBlock ==
    /\ status = "running"
    /\ Top.pc = "exec"
    /\ Top.index = 0

\* C16: a FORK step invokes fork_handler exactly once, with the address of
\* the FORK instruction and the executing engine, and no other step invokes
\* it; a non-empty reply is delivered to the sink in order within the step;
\* on an empty reply nothing is emitted, tokens, cursor and stack are as
\* before and the engine is at the null block, whose PASS returns it to the
\* driver loop without emitting or consuming.
C16_ForkDelegate ==
    [][ /\ Forking =>
             /\ Len(forked') = Len(forked) + 1
             /\ SubSeq(forked', 1, Len(forked)) = forked
             /\ LET call == forked'[Len(forked')]
                IN /\ call.pointer = Top.index
                   /\ Opcode(BC(bytecode, call.pointer)) = 6
                   /\ call.iterator = Depth
                   /\ Depth' = Depth
                   /\ call.reply # << >> => Delivered = call.reply
                   /\ call.reply = << >> =>
                         /\ out' = out
                         /\ Top' = [Top EXCEPT !.index = 0]
        /\ ~Forking => forked' = forked
        /\ AtNullBlock =>
             /\ out' = out
             /\ Depth' = Depth
             /\ Top'.pc = "loop"
             /\ Top'.tokens = Top.tokens
             /\ Top'.cursor = Top.cursor
             /\ Top'.stack = Top.stack ]_vars

\* the delegate was invoked at M_fork of IMG_MISC and its two actions are
\* the last ones delivered
C16_Witness ==
    /\ image = "MISC"
    /\ Len(forked) = 1
    /\ forked[1].pointer = 39
    /\ Len(forked[1].reply) = 2
    /\ Len(out) >= 2
    /\ SubSeq(out, Len(out) - 1, Len(out)) = forked[1].reply

\* the delegate replied with the empty list and the block was left through
\* the null block
C16_WitnessEmpty ==
    /\ image = "MISC"
    /\ Len(forked) = 1
    /\ forked[1].reply = << >>
    /\ Root.pc = "loop"
    /\ Root.stack = << >>

\* every engine below the top one is suspended inside scanner(), waiting
\* for the one scanner engine above it
OneScannerEach ==
    /\ \A d \in 1..(Depth - 1) :
          /\ frames[d].pc = "wait"
          /\ frames[d].cont.kind # NoCont.kind
          /\ frames[d + 1].SCANNER
    /\ Depth >= 1 => Top.pc # "wait"

\* C17: while a scanner engine runs, and at the step where it returns,
\* every engine waiting below it keeps its cursor, stack, symbol_accumulator,
\* production_id and fail_mode and nothing reaches the outer sink; while it
\* stays suspended the one thing written in a waiting engine is the token
\* under resolution. Each waiting engine has exactly one scanner engine,
\* and is resumed only when that engine has emptied its stack.
C17_ScannerFrame ==
    /\ [](status # "tables" => OneScannerEach)
    /\ [][ Depth >= 2 =>
             /\ out' = out
             /\ Depth' >= Depth - 1
             /\ Depth' < Depth => (Top.pc = "loop" /\ Top.stack = << >>)
             /\ \A d \in 1..(Depth - 1) :
                   /\ frames'[d].cursor = frames[d].cursor
                   /\ frames'[d].stack = frames[d].stack
                   /\ frames'[d].symbol_accumulator = frames[d].symbol_accumulator
                   /\ frames'[d].production_id = frames[d].production_id
                   /\ frames'[d].fail_mode = frames[d].fail_mode
                   /\ d < Depth' =>
                         frames'[d] = [frames[d] EXCEPT !.cont.cur = frames'[d].cont.cur] ]_vars

\* the word scanner of IMG_MISC has resolved the run xx for the waiting
\* parser, which continues with nothing delivered and its cursor at 0
C17_Witness ==
    /\ image = "MISC"
    /\ Depth = 1
    /\ Root.pc = "exec"
    /\ ~Root.SCANNER
    /\ out = << >>
    /\ Root.cursor = 0
    /\ Lookahead.type = 2
    /\ Lookahead.byte_length = 2

\* both instances of a pair have ended
BothEnded ==
    /\ pair.idle.status \in { "done", "thrown" }
    /\ status \in { "done", "thrown" }

\* the two instances of a pair, given the same replies by their delegates,
\* end with the same actions delivered and in the same final state
ResultsAgree ==
    (BothEnded /\ forked = pair.idle.forked) =>
        /\ out = pair.idle.out
        /\ status = pair.idle.status
        /\ frames = pair.idle.frames

\* the hook an embedder installed is called with the engines of its own
\* instance only
HooksApart ==
    \A o \in { "A", "B" } : \A i \in 1..Len(hook.seen[o]) : hook.seen[o][i].iterator = o

\* C18 (as stated): the instances share no mutable state: in every
\* interleaving both instances of a pair end with the same actions and final
\* state, the hook an embedder installed stays installed and is called for
\* its own instance only, whatever the other instance and its embedder do,
\* and the image is never written.
C18_Original ==
    /\ [](ResultsAgree /\ HooksApart)
    /\ [][ /\ image' = image
           /\ hook.peek \in { "A", "B" } => hook'.peek = hook.peek ]_vars

\* this step pops an entry and enters its block
EntersBlock ==
    /\ status = "running"
    /\ Top.pc = "loop"
    /\ Len(Top.stack) >= 1
    /\ Depth' = Depth
    /\ Top'.pc = "exec"

\* C18 (amended): the two instances of a pair end with the same actions and
\* final state and the image is never written; the one thing they share is
\* the module-level hook: the hook installed last is called before every
\* block either instance executes, in its scanner engines too, and with
\* the default hook nothing is observed.
C18_HookIsShared ==
    /\ [](ResultsAgree)
    /\ [][ /\ image' = image
           /\ IF EntersBlock /\ hook.peek # "default"
              THEN hook' = [hook EXCEPT !.seen[hook.peek] =
                               Append(@, [state |-> Top.stack[Len(Top.stack)].state,
                                          iterator |-> pair.active,
                                          depth |-> Depth])]
              ELSE hook'.seen = hook.seen ]_vars

\* both instances of a pair have ended after the embedder turned from A to
\* B and back, and the hook of A's embedder was called with an engine of B
C18_Shared ==
    /\ BothEnded
    /\ pair.switches = 2
    /\ \E i \in 1..Len(hook.seen["A"]) : hook.seen["A"][i].iterator = "B"

\* two snapshots equal in every field the stepper exposes
SameDebugState(a, b) ==
    /\ a.state = b.state
    /\ a.stack = b.stack
    /\ a.tokens = b.tokens
    /\ a.symbol_accumulator = b.symbol_accumulator
    /\ a.production_id = b.production_id
    /\ a.fail_mode = b.fail_mode
    /\ a.last_good_state = b.last_good_state
    /\ a.actions = b.actions

\* C19 (as stated): a second call of next_state on a snapshot of the chain,
\* made after any number of other calls, returns a snapshot equal in every
\* field to the one the first call returned.
C19_Original ==
    \A r \in 1..Len(dbg.replay) :
        SameDebugState(dbg.replay[r].state, dbg.chain[dbg.replay[r].of + 1])

\* what does hold of a second call: it agrees with the first in everything
\* but the stack and the actions
C19_ButStackAndActions ==
    \A r \in 1..Len(dbg.replay) :
        LET a == dbg.replay[r].state
            b == dbg.chain[dbg.replay[r].of + 1]
        IN /\ a.state = b.state
           /\ a.tokens = b.tokens
           /\ a.symbol_accumulator = b.symbol_accumulator
           /\ a.production_id = b.production_id
           /\ a.fail_mode = b.fail_mode
           /\ a.last_good_state = b.last_good_state

\* the actions of the snapshots of the chain, one after the other
RECURSIVE ChainActions(_)
ChainActions(chain) ==
    IF Len(chain) = 0 THEN << >> ELSE chain[1].actions \o ChainActions(Tail(chain))

\* start() runs the session whose chain of snapshots is complete and is
\* between two iterations of its loop
ReferenceBetweenIterations ==
    /\ dbg.chain # << >>
    /\ dbg.mode = "start"
    /\ status = "running"
    /\ Depth = 1
    /\ Top.pc = "loop"

\* the snapshot after as many steps as start() has made iterations carries
\* the fail_mode and last_good_state of start()
C20_ModesAgree ==
    ReferenceBetweenIterations =>
        /\ dbg.iterations + 1 <= Len(dbg.chain)
        /\ dbg.chain[dbg.iterations + 1].fail_mode = Top.fail_mode
        /\ dbg.chain[dbg.iterations + 1].last_good_state = Top.last_good_state

\* the actions of the chain are the actions start() delivered
C20_ActionsAgree ==
    (dbg.chain # << >> /\ dbg.mode = "start" /\ status = "done") =>
        out = ChainActions(dbg.chain)

\* C20 (as stated): the snapshots from the initial one to the first that is
\* not ACTIVE carry, step by step, the fail_mode and last_good_state of the
\* driver loop of start() on the same session, also after a discarded
\* entry, and their actions together are the actions start() delivers.
C20_Original == C20_ModesAgree /\ C20_ActionsAgree

\* snapshot s as read before and after a step
ReadBefore(s) == Observed(s, frames[1], dbg.objs)
ReadAfter(s) == Observed(s, frames'[1], dbg'.objs)

\* C21: no step of a DebugIterator, inside next_state or between two calls,
\* changes what is read in a snapshot that exists: the snapshot passed to
\* the call, the initial one and every one returned so far keep their stack,
\* token list and token fields, cursor position, scalar fields and actions.
C21_SnapshotsImmutable ==
    [][ (dbg.mode = "debug" /\ dbg'.mode = "debug") =>
          /\ Len(dbg'.chain) >= Len(dbg.chain)
          /\ \A k \in 1..Len(dbg.chain) : ReadAfter(dbg'.chain[k]) = ReadBefore(dbg.chain[k])
          /\ \A r \in 1..Len(dbg.replay) :
                /\ Len(dbg'.replay) >= r
                /\ ReadAfter(dbg'.replay[r].state) = ReadBefore(dbg.replay[r].state) ]_vars

\* the initial snapshot was stepped a second time after two further calls,
\* one of which shifted a token
C21_Witness ==
    /\ dbg.mode = "debug"
    /\ Len(dbg.chain) >= 3
    /\ Len(dbg.replay) = 1
    /\ dbg.replay[1].of = 1
    /\ \E k \in 1..Len(dbg.chain) : \E a \in 1..Len(dbg.chain[k].actions) :
          dbg.chain[k].actions[a].type = "SHIFT"
    /\ dbg.chain[1] = InitialDebugState(NewEngine(input, 0, Root.entry, FALSE, NewToken, Root.root))

\* C22: a CONSUME step in parser role delivers the Shift of the lookahead as
\* it is before the advance (with both lengths zero when the flag bit is
\* set), preceded by a Skip exactly when the previous token does not end
\* where the lookahead starts, adds 1 to symbol_accumulator, moves the cursor
\* and the lookahead's offsets on by the shifted lengths, and leaves the
\* lookahead with zero lengths and type 0 and tokens[0] equal to it; in
\* scanner role it delivers nothing, leaves symbol_accumulator and tokens[0]
\* alone and advances cursor and lookahead in the same way.
C22_Consume ==
    [][ Executing(1) =>
          LET e == Top
              la == e.tokens[2]
              zero == Bit(Instr, 1)
              bl == IF zero THEN 0 ELSE la.byte_length
              cl == IF zero THEN 0 ELSE la.codepoint_length
              shifted == [la EXCEPT !.byte_length = bl, !.codepoint_length = cl]
              after == [la EXCEPT !.byte_offset = @ + bl, !.codepoint_offset = @ + cl,
                                  !.byte_length = 0, !.codepoint_length = 0, !.type = 0]
              prev == e.tokens[1]
              gap == prev.byte_offset + prev.byte_length # la.byte_offset
              e2 == frames'[Depth]
          IN /\ Depth' = Depth
             /\ status' = status
             /\ e2.cursor = e.cursor + bl
             /\ e2.tokens[2] = after
             /\ IF e.SCANNER
                THEN /\ out' = out
                     /\ e2.symbol_accumulator = e.symbol_accumulator
                     /\ e2.tokens[1] = prev
                ELSE /\ Len(Delivered) = (IF gap THEN 2 ELSE 1)
                     /\ Delivered[Len(Delivered)] = [type |-> "SHIFT", token |-> shifted]
                     /\ gap => Delivered[1].type = "SKIP"
                     /\ e2.symbol_accumulator = e.symbol_accumulator + 1
                     /\ e2.tokens[1] = after ]_vars

\* O_zero of IMG_OPS on the input x: a CONSUME with the flag shifted the
\* lookahead with length 0 and left the cursor, the CONSUME after it shifted
\* one byte
C22_Witness ==
    /\ image = "OPS"
    /\ Root.entry = P26 + 3
    /\ Root.pc = "exec"
    /\ Len(out) = 2
    /\ out[1].type = "SHIFT" /\ out[1].token.byte_length = 0 /\ out[1].token.byte_offset = 0
    /\ out[2].type = "SHIFT" /\ out[2].token.byte_length = 1 /\ out[2].token.byte_offset = 0
    /\ Root.cursor = 1
    /\ Root.symbol_accumulator = 2
    /\ Root.tokens[1] = Root.tokens[2]

\* a scanner engine consumed two bytes in one CONSUME and delivered nothing
C22_WitnessScanner ==
    /\ Depth = 2
    /\ Top.SCANNER
    /\ Top.pc = "exec"
    /\ Top.cursor = Root.cursor + 2
    /\ Top.symbol_accumulator = 0
    /\ out = << >>

\* a RETURN step ends the block: the engine is back in its driver loop with
\* nothing delivered and its stack, tokens and cursor as before
ReturnEndsBlock ==
    /\ Depth' = Depth
    /\ status' = status
    /\ out' = out
    /\ Top'.pc = "loop"
    /\ Top'.stack = Top.stack
    /\ Top'.tokens = Top.tokens
    /\ Top'.cursor = Top.cursor

\* C23 (amended): RETURN ends the block and hands control back to the driver
\* loop; with its flag bit set fail_mode afterwards is what it was on block
\* entry, with the flag bit clear the engine is in fail mode afterwards
\* whatever fail_mode was on entry.
C23_ReturnFails ==
    [][ Executing(15) =>
          /\ ReturnEndsBlock
          /\ Top'.fail_mode = (IF Bit(Instr, 1) THEN Top.fail_mode ELSE TRUE) ]_vars

\* C23 (as stated): with the flag bit clear the engine is recovered
\* afterwards, fail_mode is false
C23_Original ==
    [][ Executing(15) =>
          /\ ReturnEndsBlock
          /\ Top'.fail_mode = (IF Bit(Instr, 1) THEN Top.fail_mode ELSE FALSE) ]_vars

\* O_ret of IMG_OPS: RETURN without the flag took the engine from normal
\* mode into fail mode, the fail state F_keep was entered and its RETURN
\* with the flag has kept fail mode; the entry for F_pass is left
C23_Witness ==
    /\ image = "OPS"
    /\ Root.entry = P26 + 8
    /\ Root.pc = "loop"
    /\ Root.fail_mode
    /\ Root.index = 14
    /\ Len(Root.stack) = 1
    /\ Root.stack[1].state % state_index_mask = 14

\* TRY_LAZY of IMG_MISC was followed by RETURN with the flag in normal
\* mode, which has kept normal mode
C23_WitnessNormal ==
    /\ image = "MISC"
    /\ ~Root.SCANNER
    /\ Root.pc = "loop"
    /\ ~Root.fail_mode
    /\ Root.index = 18

\* the value an ASSERT_CONSUME word compares with its operand: the class,
\* the codepoint or the byte under the cursor of the engine on top
Asserted ==
    LET mode == Field(Instr, P24, 16)
    IN CASE mode = 0 -> ReaderClass(input, Top.cursor)
         [] mode = 1 -> ReaderCodepoint(input, Top.cursor)
         [] mode = 2 -> ReaderByte(input, Top.cursor)
         [] OTHER -> Instr % P24

\* the engine on top is about to execute an ASSERT_CONSUME that fails
AssertFails == Executing(14) /\ Instr % P24 # Asserted

\* the engine on top is about to execute an ASSERT_CONSUME that matches
AssertMatches == Executing(14) /\ Instr % P24 = Asserted

\* a failed ASSERT_CONSUME delivers nothing and leaves the cursor, the
\* stack, the accumulator and the offsets of the lookahead as they are
MismatchConsumesNothing ==
    /\ Depth' = Depth
    /\ status' = status
    /\ out' = out
    /\ Top'.pc = "exec"
    /\ Top'.cursor = Top.cursor
    /\ Top'.stack = Top.stack
    /\ Top'.symbol_accumulator = Top.symbol_accumulator
    /\ Top'.tokens[1] = Top.tokens[1]
    /\ Top'.tokens[2].byte_offset = Top.tokens[2].byte_offset
    /\ Top'.tokens[2].codepoint_offset = Top.tokens[2].codepoint_offset

\* C24 (amended): on an ASSERT_CONSUME mismatch, in class, codepoint or
\* byte mode, nothing is emitted and the cursor does not advance, and
\* execution continues at word 2 of the image, wherever the instruction is.
C24_MismatchToWordTwo ==
    [][ AssertFails => (MismatchConsumesNothing /\ Top'.index = 2) ]_vars

\* C24 (as stated): execution continues two words past the word that
\* follows the instruction
C24_Original ==
    [][ AssertFails => (MismatchConsumesNothing /\ Top'.index = Top.index + 3) ]_vars

\* O_lit of IMG_OPS: the class and the byte matched and were shifted, the
\* codepoint at address 17 did not match, and the engine is at word 2
C24_Witness ==
    /\ image = "OPS"
    /\ Root.entry = P26 + 15
    /\ Root.pc = "exec"
    /\ Root.index = 2
    /\ Len(out) = 2
    /\ Root.cursor = 2
    /\ ~ReaderEND(input, Root.cursor)

\* the class at address 15 did not match
C24_WitnessClass ==
    /\ image = "OPS"
    /\ Root.entry = P26 + 15
    /\ Root.pc = "exec"
    /\ Root.index = 2
    /\ out = << >>
    /\ input # << >>

\* the byte at address 16 did not match
C24_WitnessByte ==
    /\ image = "OPS"
    /\ Root.entry = P26 + 15
    /\ Root.pc = "exec"
    /\ Root.index = 2
    /\ Len(out) = 1
    /\ ~ReaderEND(input, Root.cursor)

\* the byte length and the codepoint length an ASSERT_CONSUME word gives
\* the lookahead before it compares (lines 571-584)
AssertedBytes ==
    LET mode == Field(Instr, P24, 16)
    IN IF mode \in { 0, 1 } THEN ReaderCodepointByteLength(input, Top.cursor)
       ELSE IF mode = 2 THEN 1
       ELSE Top.tokens[2].byte_length
AssertedCodepoints ==
    LET mode == Field(Instr, P24, 16)
    IN IF mode \in { 0, 1 } THEN ReaderCodepointLength(input, Top.cursor)
       ELSE IF mode = 2 THEN 1
       ELSE Top.tokens[2].codepoint_length

\* C25 (amended): on an ASSERT_CONSUME match the engine consumes what it
\* matched: the cursor and the offsets of the lookahead advance by the
\* length of the codepoint under the cursor (one byte in byte mode), in
\* parser role the Shift of a token of that length is delivered and
\* symbol_accumulator grows by 1, and the block continues with the next word.
C25_MatchConsumes ==
    [][ AssertMatches =>
          /\ Depth' = Depth
          /\ Top'.pc = "exec"
          /\ Top'.index = Top.index + 1
          /\ Top'.cursor = Top.cursor + AssertedBytes
          /\ Top'.tokens[2].byte_offset = Top.tokens[2].byte_offset + AssertedBytes
          /\ Top'.tokens[2].codepoint_offset = Top.tokens[2].codepoint_offset + AssertedCodepoints
          /\ ~Top.SCANNER =>
                /\ Len(Delivered) >= 1
                /\ Delivered[Len(Delivered)].type = "SHIFT"
                /\ Delivered[Len(Delivered)].token.byte_offset = Top.tokens[2].byte_offset
                /\ Delivered[Len(Delivered)].token.byte_length = AssertedBytes
                /\ Delivered[Len(Delivered)].token.codepoint_length = AssertedCodepoints
                /\ Top'.symbol_accumulator = Top.symbol_accumulator + 1 ]_vars

\* C25 (as stated): the consume of a match advances the cursor and the
\* lookahead offset by zero bytes
C25_Original ==
    [][ AssertMatches =>
          /\ Depth' = Depth
          /\ Top'.pc = "exec"
          /\ Top'.index = Top.index + 1
          /\ Top'.cursor = Top.cursor
          /\ Top'.tokens[2].byte_offset = Top.tokens[2].byte_offset ]_vars

\* O_lit of IMG_OPS on the input x y e-acute: the class, the byte and the
\* two-byte codepoint matched, three tokens were shifted and the cursor is
\* at the end of the four bytes
C25_Witness ==
    /\ image = "OPS"
    /\ Root.entry = P26 + 15
    /\ input = << CH_x, CH_y, UTF8_LEAD, UTF8_CONT >>
    /\ Root.pc = "exec"
    /\ Root.index = 18
    /\ Len(out) = 3
    /\ out[3].type = "SHIFT"
    /\ out[3].token.byte_offset = 2
    /\ out[3].token.byte_length = 2
    /\ Root.cursor = 4
    /\ Lookahead.byte_offset = 4

\* ------------------------------------------------------- production_id

\* the engines that exist before and after a step: a scanner engine whose
\* loop finds the stack empty has finished, and the engine that may follow
\* it in its place is a new one
Surviving == 1..(IF Depth > 1 /\ Top.pc = "loop" /\ Len(Top.stack) < 1 THEN Depth - 1 ELSE Depth)

\* the step changed production_id of an engine
ProductionChanged(i) == frames'[i].production_id # frames[i].production_id

\* the step executed a standalone SET_PRODUCTION word in the engine on top
StandaloneSetProduction ==
    /\ Executing(3)
    /\ Depth' = Depth
    /\ Top'.production_id = Instr % P28
    /\ Top'.index = Top.index + 1

\* the step executed a REDUCE and the SET_PRODUCTION word placed after it
InlineSetProduction ==
    /\ Executing(4)
    /\ Depth' = Depth
    /\ Opcode(BC(bytecode, Top.index + 1)) = 3
    /\ Top'.production_id = BC(bytecode, Top.index + 1) % P28
    /\ Top'.index = Top.index + 2

\* the step executed a SET_TOKEN word of the type form (bit 27)
TypeSetToken ==
    /\ Executing(5)
    /\ Depth' = Depth
    /\ Bit(Instr, P27)
    /\ Top'.production_id = Instr % P24
    /\ Top'.index = Top.index + 1

\* C26 (as the code has it): production_id of an engine changes only in a
\* step of that engine that executes a SET_PRODUCTION word (standalone, or
\* the word directly after a REDUCE, which the REDUCE step executes and steps
\* over, so that it is not executed again), then to the 28-bit operand of
\* that word, or a SET_TOKEN word of the type form, then to the 24-bit token
\* type of that word; every REDUCE followed by a SET_PRODUCTION word leaves
\* production_id at that word's operand and the index behind the word.
C26_ProductionWriters ==
    [][ /\ \A i \in Surviving :
              ProductionChanged(i) =>
                  /\ i = Depth
                  /\ StandaloneSetProduction \/ InlineSetProduction \/ TypeSetToken
        /\ Executing(3) => StandaloneSetProduction
        /\ Executing(5) /\ Bit(Instr, P27) => TypeSetToken
        /\ Executing(4) /\ Opcode(BC(bytecode, Top.index + 1)) = 3 => InlineSetProduction
        /\ Executing(4) /\ Opcode(BC(bytecode, Top.index + 1)) # 3 =>
              /\ Top'.production_id = Top.production_id
              /\ Top'.index = Top.index + 1 ]_vars

\* C26 as stated: production_id changes only when a SET_PRODUCTION word is
\* executed, standalone or inline after a REDUCE
C26_Original ==
    [][ \A i \in Surviving :
            ProductionChanged(i) =>
                /\ i = Depth
                /\ StandaloneSetProduction \/ InlineSetProduction ]_vars

\* the block S0 of the grammar A -> 'x' 'y' has reduced: the SET_PRODUCTION 1
\* after its REDUCE has been executed by the REDUCE step, the engine stands
\* on the PASS behind it and the Reduce delivered carries the production
\* that was current before
C26_Witness ==
    /\ status = "running"
    /\ Depth = 1
    /\ Root.pc = "exec"
    /\ Opcode(BC(bytecode, Root.index - 1)) = 3
    /\ Opcode(BC(bytecode, Root.index - 2)) = 4
    /\ Opcode(BC(bytecode, Root.index)) = 0
    /\ Root.production_id = BC(bytecode, Root.index - 1) % P28
    /\ out # << >>
    /\ LastOut.type = "REDUCE"
    /\ LastOut.production # Root.production_id

\* a scanner engine stands behind a SET_TOKEN word of the type form, with
\* production_id equal to the token type of that word
C26_WitnessSetToken ==
    /\ status = "running"
    /\ Depth > 1
    /\ Top.pc = "exec"
    /\ Opcode(BC(bytecode, Top.index - 1)) = 5
    /\ Bit(BC(bytecode, Top.index - 1), P27)
    /\ Top.production_id = BC(bytecode, Top.index - 1) % P24
    /\ Top.production_id > 0

\* ------------------------------------------------------------ GOTO chain

\* the number of GOTO-tagged words in a row that begin at the address (a
\* read behind the image is not GOTO-tagged)
ChainLength(address) ==
    CHOOSE n \in 0..Len(bytecode) :
        /\ \A k \in 0..(n - 1) : Opcode(BC(bytecode, address + k)) = 2
        /\ Opcode(BC(bytecode, address + n)) # 2

\* C27: a GOTO step pushes the GOTO word and every GOTO-tagged word directly
\* after it, each with the symbol_accumulator of the engine, in bytecode
\* order, so that the stack grows by exactly the length of the chain, and
\* the block resumes at the first word after the chain; an iteration of the
\* driver loop removes exactly the top entry and, if it executes a block,
\* executes the block that entry addresses: the last GOTO of a chain is
\* executed first and the earlier ones after it, last to first.
C27_GotoChain ==
    [][ /\ Executing(2) =>
              LET n == ChainLength(Top.index)
                  pushed == [k \in 1..n |-> [ state |-> BC(bytecode, Top.index + k - 1),
                                              meta |-> Top.symbol_accumulator ]]
              IN /\ n >= 1
                 /\ Depth' = Depth
                 /\ Top'.stack = Top.stack \o pushed
                 /\ Len(Top'.stack) = Len(Top.stack) + n
                 /\ Top'.index = Top.index + n
                 /\ Top'.pc = "exec"
                 /\ Top'.symbol_accumulator = Top.symbol_accumulator
                 /\ out' = out
        /\ status = "running" /\ Top.pc = "loop" /\ Len(Top.stack) >= 1 =>
              /\ Depth' = Depth
              /\ Top'.stack = SubSeq(Top.stack, 1, Len(Top.stack) - 1)
              /\ Top'.pc = "exec" =>
                    Top'.index = Top.stack[Len(Top.stack)].state % state_index_mask ]_vars

\* M0 of IMG_MISC is a chain of five GOTO words (addresses 3 to 7) before a
\* PASS: the chain has been pushed in one step in bytecode order, the state
\* of the last word has been popped and is being executed, the states of
\* the four words before it are on the stack
C27_Witness ==
    /\ image = "MISC"
    /\ Root.entry = P26 + 3
    /\ Depth = 1
    /\ ChainLength(3) = 5
    /\ Root.pc = "exec"
    /\ Root.index = BC(bytecode, 7) % state_index_mask
    /\ Len(Root.stack) = 4
    /\ \A k \in 1..4 : Root.stack[k] = [state |-> BC(bytecode, 2 + k), meta |-> 0]
    /\ out = << >>

\* the chain of M0 has just been pushed: five entries, the engine on the PASS
C27_WitnessPushed ==
    /\ image = "MISC"
    /\ Root.entry = P26 + 3
    /\ Root.pc = "exec"
    /\ Root.index = 8
    /\ Len(Root.stack) = 5
    /\ \A k \in 1..5 : Root.stack[k] = [state |-> BC(bytecode, 2 + k), meta |-> 0]

\* ------------------------------------------------------- PUSH_FAIL_STATE

\* the entry k of the stack addresses the target (its low 24 bits)
Addresses(stack, k, target) ==
    /\ k >= 1
    /\ k <= Len(stack)
    /\ stack[k].state % instruction_pointer_mask = target

\* C28: a PUSH_FAIL_STATE step pushes its word with the symbol_accumulator,
\* so that the stack grows by one, unless the top of the stack addresses the
\* target of the word already; then the state of the top entry is replaced
\* by the word and the depth stays. After the step the top addresses the
\* target, so that a PUSH_FAIL_STATE of the same target directly after it
\* replaces again, and the two entries on top address the target both only
\* if they did before the step.
C28_PushFailState ==
    [][ Executing(11) =>
          LET target == Instr % instruction_pointer_mask
              n == Len(Top.stack)
              m == Len(Top'.stack)
          IN /\ Depth' = Depth
             /\ Top'.pc = "exec"
             /\ Top'.index = Top.index + 1
             /\ out' = out
             /\ IF Addresses(Top.stack, n, target)
                THEN /\ m = n
                     /\ Top'.stack = [Top.stack EXCEPT ![n].state = Instr]
                ELSE /\ m = n + 1
                     /\ Top'.stack = Append(Top.stack, [ state |-> Instr,
                                                        meta |-> Top.symbol_accumulator ])
             /\ Addresses(Top'.stack, m, target)
             /\ Addresses(Top'.stack, m - 1, target) =>
                    Addresses(Top.stack, n, target) /\ Addresses(Top.stack, n - 1, target) ]_vars

\* O_ret of IMG_OPS executes PUSH_FAIL_STATE F_pass and three times
\* PUSH_FAIL_STATE F_keep (addresses 8 to 11): before the RETURN at address
\* 12 the stack holds one entry for F_pass and one for F_keep
C28_Witness ==
    /\ image = "OPS"
    /\ Root.entry = P26 + 8
    /\ Root.pc = "exec"
    /\ Root.index = 12
    /\ \A k \in 8..11 : Opcode(BC(bytecode, k)) = 11
    /\ \A k \in 9..11 : BC(bytecode, k) = BC(bytecode, 9)
    /\ Len(Root.stack) = 2
    /\ Root.stack[1].state = BC(bytecode, 8)
    /\ Root.stack[2].state = BC(bytecode, 9)
    /\ ~Addresses(Root.stack, 1, BC(bytecode, 9) % instruction_pointer_mask)

\* ----------------------------------------------------------- INDEX_JUMP

\* the INDEX_JUMP under test: the instruction word is followed by two
\* header words, the scanner pointer and the table data
IndexBase == BC(bytecode, Table.index_at) % P16
RowCount == BC(bytecode, Table.index_at + 2) \div P16
RowSize == BC(bytecode, Table.index_at + 2) % P16
TableStart == Table.index_at + 3

\* C29: INDEX_JUMP on the discriminant d computes v = d - base and continues
\* at table_start + v * row_size + row_size if 0 <= v < row_count, and at
\* table_start, the default block, otherwise; table_start is the word after
\* the two header words that follow the instruction word.
C29_IndexJump ==
    (status = "tables" /\ jump.index_target # -1) =>
        LET v == jump.d - IndexBase
        IN /\ RowCount >= 1
           /\ RowSize >= 1
           /\ jump.index_target =
                 IF 0 <= v /\ v < RowCount
                 THEN TableStart + v * RowSize + RowSize
                 ELSE TableStart
           /\ jump.index_target >= TableStart
           /\ jump.index_target <= TableStart + RowCount * RowSize

\* the table of JT_EVEN (keys 2, 6, 10) on the discriminant 6: the row of
\* v = 4, which holds the block of branch 2
C29_Witness ==
    /\ status = "tables"
    /\ image = "JT_EVEN"
    /\ jump.d = 6
    /\ jump.d - IndexBase = 4
    /\ jump.index_target = TableStart + 5 * RowSize
    /\ BranchAt(jump.index_target) = 2

\* the discriminant directly behind the last row continues at the default block
C29_WitnessDefault ==
    /\ status = "tables"
    /\ image = "JT_DENSE"
    /\ jump.d - IndexBase = RowCount
    /\ jump.index_target = TableStart
    /\ BranchAt(jump.index_target) = DefaultBranch

\* ------------------------------------------------------------ HASH_JUMP

\* the HASH_JUMP under test: the instruction word, the scanner pointer, the
\* table data, the cells, the instruction field, the default block
HashBits == Field(BC(bytecode, Table.hash_at + 2), P16, P16)
HashCells == BC(bytecode, Table.hash_at + 2) % P16
FieldStart == Table.hash_at + 3 + HashCells
FieldSize == BC(bytecode, Table.hash_at) % P16
CellValue(j) == BC(bytecode, Table.hash_at + 3 + j) % P11
CellOffset(j) == Field(BC(bytecode, Table.hash_at + 3 + j), P11, P11)
CellStep(j) == Field(BC(bytecode, Table.hash_at + 3 + j), P22, 1024) - 512

\* the cell probed after n moves
Probed[n \in 0..HashCells] ==
    IF n = 0 THEN jump.d % (2 ^ HashBits) ELSE Probed[n - 1] + CellStep(Probed[n - 1])

\* the probe ends on the cell it reaches after n moves
ProbeEnds(n) == CellValue(Probed[n]) = jump.d \/ CellStep(Probed[n]) = 0

\* the discriminant is the value of a cell of the table
Stored == \E j \in 0..(HashCells - 1) : CellValue(j) = jump.d

\* C30: HASH_JUMP on the discriminant d probes the cell d AND (2^k - 1) first
\* and moves from a cell to the next by the signed step of the cell; the probe
\* ends on the first cell that holds d or has the step zero, and HASH_JUMP
\* continues at the start of the instruction field plus the instruction
\* offset of that cell if it holds d, and at the default block directly
\* behind the instruction field otherwise. A discriminant a cell of the
\* table holds continues at the offset of that cell, any other at the default.
C30_HashJump ==
    status = "tables" =>
        /\ \E n \in 0..HashCells :
              /\ ProbeEnds(n)
              /\ \A m \in 0..(n - 1) : ~ProbeEnds(m)
              /\ \A m \in 0..n : Probed[m] >= 0 /\ Probed[m] < HashCells
              /\ jump.hash_target # -1 =>
                    jump.hash_target =
                        IF CellValue(Probed[n]) = jump.d
                        THEN FieldStart + CellOffset(Probed[n])
                        ELSE FieldStart + FieldSize
        /\ jump.hash_target # -1 =>
              IF Stored
              THEN /\ \E j \in 0..(HashCells - 1) :
                         /\ CellValue(j) = jump.d
                         /\ jump.hash_target = FieldStart + CellOffset(j)
                   /\ jump.hash_target < FieldStart + FieldSize
              ELSE jump.hash_target = FieldStart + FieldSize

\* the table of JT_EVEN on the discriminant 10: every key hashes to one cell,
\* the probe found 10 after more than one move
C30_Witness ==
    /\ status = "tables"
    /\ image = "JT_EVEN"
    /\ jump.d = 10
    /\ Stored
    /\ jump.hash_target # -1
    /\ \E n \in 2..HashCells :
          /\ CellValue(Probed[n]) = jump.d
          /\ \A m \in 0..(n - 1) : ~ProbeEnds(m)
          /\ jump.hash_target = FieldStart + CellOffset(Probed[n])

\* a discriminant that agrees with the key 2 in its low 11 bits is not
\* stored: the probe ran along the chain to a step of zero, to the default
C30_WitnessDefault ==
    /\ status = "tables"
    /\ image = "JT_EVEN"
    /\ jump.d = 2 + P11
    /\ ~Stored
    /\ CellValue(Probed[0]) = 2
    /\ jump.hash_target = FieldStart + FieldSize
    /\ BranchAt(jump.hash_target) = DefaultBranch

\* ------------------------------------------------------------- opcode 8

\* the word with opcode 9 and the operand bits of the instruction
AsIndexJump(instruction) == W(9, instruction % P28)

\* index_jump on a word for the engine on top, where the discriminant needs
\* no scanner: the engine after the handler
IndexJumped(instruction) ==
    LET e == Fetched
        r == GetInputValue(input, e, InputType(instruction), LexerType(instruction))
    IN [r.e EXCEPT !.index = IndexJumpTarget(bytecode, e.index, instruction, r.value)]

\* the discriminant of the word is resolved by a scanner engine
NeedsScanner(instruction) ==
    GetInputValue(input, Fetched, InputType(instruction), LexerType(instruction)).call

\* C31: a word with opcode 8 does not end the block; the step that executes
\* it, like the step that executes a word with opcode 9, is the step of
\* index_jump on the word with opcode 9 and the same operand bits, read with
\* the two header words behind it: the instruction index, the tokens and
\* the cursor after the step are those of index_jump, fail mode and the
\* stack are untouched and nothing is delivered.
C31_NoopIsIndexJump ==
    [][ (Executing(8) \/ Executing(9)) /\ ~NeedsScanner(Instr) =>
          LET twin == IndexJumped(AsIndexJump(Instr))
          IN /\ Depth' = Depth
             /\ status' = status
             /\ out' = out
             /\ Top'.pc = "exec"
             /\ Top'.index = twin.index
             /\ Top'.tokens = twin.tokens
             /\ Top'.cursor = twin.cursor
             /\ Top'.fail_mode = Top.fail_mode
             /\ Top'.stack = Top.stack
             /\ Top'.index >= Top.index + 3 ]_vars

\* O_noop of IMG_OPS on an input that begins with y: the word with opcode 8
\* at address 19 has measured the byte under the cursor into the lookahead
\* and selected the row of y at address 24
C31_Witness ==
    /\ image = "OPS"
    /\ Root.entry = P26 + 19
    /\ Opcode(BC(bytecode, 19)) = 8
    /\ Root.pc = "exec"
    /\ Root.index = 24
    /\ Root.cursor = 0
    /\ Lookahead.byte_length = 1
    /\ input # << >>
    /\ input[1] = CH_y
    /\ out = << >>

\* M_prod of IMG_MISC: the word with opcode 8 at address 32 dispatched on
\* the production id
C31_WitnessProduction ==
    /\ image = "MISC"
    /\ Opcode(BC(bytecode, 32)) = 8
    /\ Root.pc = "exec"
    /\ Root.index >= 35
    /\ Root.index <= 37
    /\ Root.last_good_state % state_index_mask = 32

\* -------------------------------------------------------------- SCAN_TO

\* the engine below the top is inside scan_to, and the scanner engine it
\* waits for delivers its token in this step
ScanYields ==
    /\ status = "running"
    /\ Depth > 1
    /\ Top.pc = "loop"
    /\ Len(Top.stack) < 1
    /\ frames[Depth - 1].cont.kind = "scan"

\* the target ids listed inline behind the SCAN_TO of a continuation
ScanTargets(c) == { BC(bytecode, i) : i \in c.start..(c.end - 1) }

\* C32: while an engine is inside SCAN_TO nothing is delivered and its
\* tokens and its cursor stay as they are, in backward mode also when a
\* token of a target type is found (execution then continues behind the
\* list of target ids), and in either mode when a token that is not of a
\* target type begins at the end of the input (execution then continues at
\* address 1); a forward SCAN_TO that finds a token of a target type writes
\* the byte offset, the byte length and the type of that token to the
\* lookahead, leaves the token before the lookahead and the cursor, and
\* continues behind the list of target ids.
C32_ScanTo ==
    [][ /\ Executing(7) =>
              /\ out' = out
              /\ frames'[Depth].tokens = Top.tokens
              /\ frames'[Depth].cursor = Top.cursor
        /\ ScanYields =>
              LET caller == frames[Depth - 1]
                  after == frames'[Depth - 1]
                  c == caller.cont
                  token == ScannerToken(Top)
                  skipped == token.type = skipped_scan_prod
                  found == ~skipped /\ token.type \in ScanTargets(c)
                  ended == Depth' = Depth - 1
              IN /\ out' = out
                 /\ after.cursor = caller.cursor
                 /\ after.tokens[1] = caller.tokens[1]
                 /\ Len(after.tokens) = Len(caller.tokens)
                 /\ found => ended /\ after.index = c.end /\ after.pc = "exec"
                 /\ ended /\ ~found =>
                       /\ after.index = 1
                       /\ OffsetAtEnd(input, c.cur.byte_offset)
                 /\ IF found /\ ~c.scan_back
                    THEN /\ after.tokens[2].byte_offset = c.cur.byte_offset
                         /\ after.tokens[2].byte_length = token.byte_length
                         /\ after.tokens[2].type = token.type
                    ELSE after.tokens = caller.tokens ]_vars

\* M_scan of IMG_MISC (SCAN_TO forward to the token y, address 19) has found
\* y behind another character: the engine stands on the PASS behind the
\* target list, the lookahead holds the token y where it was found, the
\* cursor has stayed in front of it
C32_Witness ==
    /\ image = "MISC"
    /\ Depth = 1
    /\ Root.pc = "exec"
    /\ Root.index = 22
    /\ Lookahead.type = 3
    /\ Lookahead.byte_length = 1
    /\ Lookahead.byte_offset > Root.cursor
    /\ input[Lookahead.byte_offset + 1] = CH_y

\* M_back (SCAN_TO backward, address 23) has found a target token from the
\* offset of the token before the lookahead: the engine stands behind the
\* two target ids, the lookahead is still the token M_scan wrote
C32_WitnessBackward ==
    /\ image = "MISC"
    /\ Depth = 1
    /\ Root.pc = "exec"
    /\ Root.index = 27
    /\ Root.last_good_state % state_index_mask = 23
    /\ Lookahead.type = 3
    /\ Lookahead.byte_offset > Current.byte_offset

\* M_scan ran to the end of the input without finding y: address 1
C32_WitnessExhausted ==
    /\ image = "MISC"
    /\ Depth = 1
    /\ Root.pc = "exec"
    /\ Root.index = 1
    /\ Root.last_good_state % state_index_mask = 19
    /\ Lookahead.type = 0
    /\ \A i \in 1..Len(input) : input[i] # CH_y

\* ------------------------------------------------------------ SET_TOKEN

\* C33: SET_TOKEN performs a consume first if its consume flag (bit 24) is
\* set. With the type flag (bit 27) it then sets the type of the token
\* before the lookahead and production_id to its 24-bit operand and the
\* byte and codepoint length of that token to the distance from its offset
\* to the offset of the lookahead, and leaves the lookahead; without the type
\* flag it sets the byte and codepoint length of the lookahead to the
\* operand and nothing else. Without the consume flag nothing is delivered
\* and the cursor stays.
C33_SetToken ==
    [][ Executing(5) =>
          LET value == Instr % P24
              consumes == Bit(Instr, P24)
              c == IF consumes THEN Consume(Fetched, 0) ELSE Fetched
              e2 == Top'
          IN /\ Depth' = Depth
             /\ e2.pc = "exec"
             /\ e2.index = Top.index + 1
             /\ e2.cursor = c.cursor
             /\ e2.symbol_accumulator = c.symbol_accumulator
             /\ ~consumes => out' = out /\ e2.cursor = Top.cursor
             /\ consumes /\ Depth = 1 =>
                   /\ Delivered = c.em
                   /\ ~Top.SCANNER => Delivered # << >> /\ Delivered[Len(Delivered)].type = "SHIFT"
             /\ IF Bit(Instr, P27)
                THEN /\ e2.production_id = value
                     /\ e2.tokens[2] = c.tokens[2]
                     /\ ~consumes => e2.tokens[2] = Top.tokens[2]
                     /\ e2.tokens[1] =
                           [c.tokens[1] EXCEPT
                              !.type = value,
                              !.byte_length = c.tokens[2].byte_offset - c.tokens[1].byte_offset,
                              !.codepoint_length =
                                  c.tokens[2].codepoint_offset - c.tokens[1].codepoint_offset]
                ELSE /\ e2.production_id = Top.production_id
                     /\ e2.tokens[1] = c.tokens[1]
                     /\ ~consumes => e2.tokens[1] = Top.tokens[1]
                     /\ e2.tokens[2] = [c.tokens[2] EXCEPT !.byte_length = value,
                                                          !.codepoint_length = value] ]_vars

\* O_tok of IMG_OPS in scanner role: SET_TOKEN type 2 with the consume flag
\* has consumed the byte measured by the SET_TOKEN before it and given the
\* token before the lookahead the type 2 and the length 1, the distance to
\* the lookahead
C33_Witness ==
    /\ image = "OPS"
    /\ Root.entry = P26 + 26
    /\ Root.SCANNER
    /\ Root.pc = "exec"
    /\ Root.index = 28
    /\ Root.cursor = 1
    /\ Root.production_id = 2
    /\ Current.type = 2
    /\ Current.byte_offset = 0
    /\ Current.byte_length = 1
    /\ Lookahead.byte_offset = 1
    /\ Lookahead.byte_length = 0

\* O_tok in parser role behind its last word: the length form with the
\* consume flag left the lookahead with length 2, the type form without it
\* the token before the lookahead with type 3 and length 0
C33_WitnessParser ==
    /\ image = "OPS"
    /\ Root.entry = P26 + 26
    /\ ~Root.SCANNER
    /\ Root.pc = "exec"
    /\ Root.index = 30
    /\ Lookahead.byte_length = 2
    /\ Current.type = 3
    /\ Current.byte_length = 0
    /\ Root.production_id = 3
    /\ Len(out) >= 2

\* --------------------------------------------------- the list of tokens

\* the step executes a dispatch (INDEX_JUMP, opcode 8, HASH_JUMP) whose
\* discriminant is a lexer value of the given token transition
Resolves(transition) ==
    /\ Executing(8) \/ Executing(9) \/ Executing(10)
    /\ InputType(Instr) > 0
    /\ (LexerType(Instr) = 1) = (transition = "peek")

\* the engine that executed the dispatch, after the step: still the engine
\* at its depth, also when it now waits for a scanner engine
Resolver == frames'[Depth]

\* every engine holds at least two tokens
TwoTokensAtLeast == \A i \in 1..Depth : Len(frames[i].tokens) >= 2

\* C34 (as stated): the list of tokens always holds at least two tokens,
\* and when get_input_value returns from a primary-mode resolution it holds
\* exactly two: the peek tokens have been dropped and, where there were
\* any, the cursor is on the byte offset of the lookahead.
C34_Original ==
    [][ /\ TwoTokensAtLeast
        /\ Resolves("primary") =>
              /\ Len(Resolver.tokens) = 2
              /\ Len(Top.tokens) > 2 => Resolver.cursor = Resolver.tokens[2].byte_offset ]_vars

\* what the code keeps: the same for every primary-mode resolution that
\* does not find the reader at the end of the input; one that does returns
\* 1 at once (lines 733-734) and leaves the list and the cursor as they are
C34_UnlessReaderAtEnd ==
    [][ /\ TwoTokensAtLeast
        /\ Resolves("primary") =>
              IF ReaderEND(input, Top.cursor)
              THEN /\ Resolver.tokens = Top.tokens
                   /\ Resolver.cursor = Top.cursor
                   /\ Depth' = Depth
              ELSE /\ Len(Resolver.tokens) = 2
                   /\ Len(Top.tokens) > 2 =>
                         Resolver.cursor = Resolver.tokens[2].byte_offset ]_vars

\* P2 of IMG_PEEK on the input xx: the two peeks of P1 and P3 have left
\* three tokens and the cursor at the end of the input, the primary-mode
\* dispatch of P2 has returned on that list, with the cursor two bytes
\* behind the lookahead
C34_ReturnedWithPeekToken ==
    /\ image = "PEEK"
    /\ input = << CH_x, CH_x >>
    /\ Depth = 1
    /\ Root.pc = "exec"
    /\ Len(Root.tokens) = 3
    /\ Lookahead.byte_offset = 0
    /\ Root.cursor = 2
    /\ Opcode(BC(bytecode, Root.last_good_state % state_index_mask)) = 9
    /\ LexerType(BC(bytecode, Root.last_good_state % state_index_mask)) = 0
    /\ Root.index > Root.last_good_state % state_index_mask
    /\ Opcode(BC(bytecode, Root.index)) = 15

\* ------------------------------------------------------------ peek mode

\* the last token of the list of the engine on top
LastToken == Top.tokens[Len(Top.tokens)]

\* the value of the input kind at a byte offset
InputValueAt(input_type, offset) ==
    CASE input_type = 2 -> ReaderClass(input, offset)
      [] input_type = 3 -> ReaderCodepoint(input, offset)
      [] OTHER -> ReaderByte(input, offset)

\* the instruction index a dispatch word selects for a discriminant
Selected(value) ==
    IF Opcode(Instr) = 10
    THEN HashJumpTarget(bytecode, Top.index + 1, Instr, value)
    ELSE IndexJumpTarget(bytecode, Top.index + 1, Instr, value)

\* the engine below the top waits for the type of a peek token, and the
\* scanner engine delivers its token in this step
PeekYields ==
    /\ status = "running"
    /\ Depth > 1
    /\ Top.pc = "loop"
    /\ Len(Top.stack) < 1
    /\ frames[Depth - 1].cont.kind \in { "index", "hash" }
    /\ frames[Depth - 1].cont.target > 2

\* what a peek-mode resolution does to the list of tokens: the tokens it
\* finds stay as they are; it appends nothing at the end of the input and
\* one token, which starts where the last token ends, otherwise
PeekAppends ==
    LET n == Len(Top.tokens)
    IN /\ \A k \in 1..n : Resolver.tokens[k] = Top.tokens[k]
       /\ Resolver.cursor = Top.cursor + LastToken.byte_length
       /\ IF ReaderEND(input, Resolver.cursor)
          THEN Len(Resolver.tokens) = n /\ Depth' = Depth
          ELSE /\ Len(Resolver.tokens) = n + 1
               /\ Resolver.tokens[n + 1].byte_offset =
                     LastToken.byte_offset + LastToken.byte_length
               /\ Depth' = Depth + 1 <=> InputType(Instr) = 1

\* the scanner engine resolved a peek token: the tokens before it stay, the
\* token receives the type and the length the scanner found
PeekResolved ==
    LET caller == frames[Depth - 1]
        after == frames'[Depth - 1]
        n == caller.cont.target
    IN /\ Len(after.tokens) = Len(caller.tokens)
       /\ \A k \in 1..(n - 1) : after.tokens[k] = caller.tokens[k]
       /\ Depth' = Depth - 1 =>
             /\ after.tokens[n].type = ScannerToken(Top).type
             /\ after.tokens[n].byte_length = ScannerToken(Top).byte_length

\* the discriminant of a peek-mode resolution that needs no scanner, read
\* at a byte offset, selected the instruction index of the step
PeekReturned(offset) ==
    Depth' = Depth =>
        Resolver.index =
            Selected(IF ReaderEND(input, Resolver.cursor) THEN 0
                     ELSE InputValueAt(InputType(Instr), offset))

\* C35 (as stated): a peek-mode resolution leaves the token before the
\* lookahead and the lookahead; at the end of the input it appends nothing
\* and returns 0, otherwise it appends exactly one token, which starts where
\* the last token of the list ends, and returns the class, codepoint or byte
\* of the input at that token, or the type the scanner resolves for it.
C35_Original ==
    [][ /\ Resolves("peek") =>
              /\ PeekAppends
              /\ PeekReturned(LastToken.byte_offset + LastToken.byte_length)
        /\ PeekYields => PeekResolved ]_vars

\* what the code keeps: the same, with the class, codepoint or byte read
\* at the cursor of the engine's reader, which get_input_value has moved on
\* by the byte length of the last token (line 699)
C35_ReadAtCursor ==
    [][ /\ Resolves("peek") =>
              /\ PeekAppends
              /\ PeekReturned(Resolver.cursor)
        /\ PeekYields => PeekResolved ]_vars

\* P3 of IMG_PEEK on the input newline x x: the scanner skipped the newline
\* for the lookahead, which starts at offset 1, and for no one moved the
\* reader; the class peek of P3 has appended a token at offset 3, the end
\* of the input, with the length of the x it read at the cursor, offset 2
C35_PeekBehindCursor ==
    /\ image = "PEEK"
    /\ input = << CH_nl, CH_x, CH_x >>
    /\ Depth = 1
    /\ Root.pc = "exec"
    /\ Len(Root.tokens) = 4
    /\ Lookahead.byte_offset = 1
    /\ Root.tokens[3].byte_offset = 2
    /\ Root.tokens[4].byte_offset = 3
    /\ Root.tokens[4].byte_length = 1
    /\ Root.cursor = 2
    /\ OffsetAtEnd(input, Root.tokens[4].byte_offset)

\* ------------------------------------------------- FORK in a scanner

\* a scanner engine has executed a FORK
ScannerForked == \E k \in 1..Len(forked) : forked[k].iterator > 1

\* C36 (as stated): once a scanner engine has reached a FORK the token
\* resolution has failed with an error thrown to the embedder; the scanner
\* engine does not go on behind the FORK and the resolution returns no token.
C36_Original == ScannerForked => status = "thrown"

\* what the code does: the FORK of a scanner engine calls the delegate of
\* scanner(), a => [], emits nothing and continues at address 0
C36_ScannerForkContinues ==
    [][ Executing(6) /\ Depth > 1 =>
          /\ status' = "running"
          /\ Depth' = Depth
          /\ out' = out
          /\ Top'.pc = "exec"
          /\ Top'.index = 0
          /\ Len(forked') = Len(forked) + 1
          /\ forked'[Len(forked')].reply = << >> ]_vars

\* O_scan of IMG_OPS on the input x: the scanner region SCF executed its
\* FORK at address 41, the resolution returned the token x to the
\* dispatch, which shifted it, and start() returned
C36_TokenAfterFork ==
    /\ image = "OPS"
    /\ Root.entry = P26 + 31
    /\ input = << CH_x >>
    /\ ScannerForked
    /\ forked[1].pointer = 41
    /\ status = "done"
    /\ Len(out) = 2
    /\ out[1].type = "SHIFT"
    /\ out[1].token.type = 2
    /\ out[2].type = "ACCEPT"

\* ---------------------------------------------------- skipped tokens

\* an engine waits for a token resolution
Resolving == status = "running" /\ Depth > 1

\* the scanner engine on top delivers a token of the skipped type
YieldsSkipped ==
    /\ Resolving
    /\ Top.pc = "loop"
    /\ Len(Top.stack) < 1
    /\ ScannerToken(Top).type = skipped_scan_prod

\* C37 (as stated): every token resolution returns, for every input,
\* whatever the skipped tokens the scanner yields on the way, a skipped
\* token of length zero and skipped input up to the end among them.
C37_Original == Resolving ~> ~Resolving

\* what the code keeps: a resolution returns or comes to yield a skipped
\* token of length zero
C37_ReturnsUnlessEmptySkip ==
    Resolving ~> (~Resolving \/ (YieldsSkipped /\ ScannerToken(Top).byte_length = 0))

\* and each time the scanner engine yields the skipped type, the token
\* being resolved is moved on by the length of the skipped token and the
\* scanner engine starts again from its entry pointer, where it stands
C37_SkipRestarts ==
    [][ YieldsSkipped =>
          LET cur == frames[Depth - 1].cont.cur
              token == ScannerToken(Top)
          IN /\ Depth' = Depth
             /\ status' = status
             /\ frames'[Depth - 1].cont.cur.byte_offset = cur.byte_offset + token.byte_length
             /\ Top'.stack = StackReset(Top.entry)
             /\ Top'.pc = "loop"
             /\ Top'.cursor = Top.cursor
             /\ Top'.tokens[1].byte_offset = Top.tokens[2].byte_offset ]_vars

\* the scanner region of IMG_SKIP yields the skipped type for the z under
\* its cursor without having consumed it: the token being resolved and the
\* cursor of the scanner engine are where they were when it was started
C37_EmptySkipAgain ==
    /\ image = "SKIP"
    /\ input = << CH_z >>
    /\ YieldsSkipped
    /\ ScannerToken(Top).byte_length = 0
    /\ Top.cursor = 0
    /\ frames[1].cont.cur.byte_offset = 0
    /\ Top.tokens[1].line_number = ReaderLineCount(input, Top.cursor)
    /\ Top.last_good_state # -1

\* ------------------------------------------- the production of a Reduce

\* C38: every Reduce is delivered by a REDUCE step, alone, and its
\* production field is the production_id the engine had when the REDUCE
\* began; the SET_PRODUCTION word directly behind the REDUCE has its effect
\* on production_id only behind the delivery: the engine has the operand of
\* that word after the step, the Reduce delivered in it has not.
C38_ReduceProduction ==
    [][ /\ \A k \in 1..Len(Delivered) :
              Delivered[k].type = "REDUCE" => Executing(4) /\ Depth = 1
        /\ Executing(4) /\ Depth = 1 =>
              /\ Len(Delivered) = 1
              /\ Delivered[1].type = "REDUCE"
              /\ Delivered[1].production = Root.production_id
              /\ Opcode(BC(bytecode, Root.index + 1)) = 3 =>
                    Root'.production_id = BC(bytecode, Root.index + 1) % P28 ]_vars

\* the list of IMG_LIST has been reduced behind an element E: the Reduce of
\* E carries the production of the token type dispatch before it, the
\* Reduce of the list (rule 5) the production 2 that the SET_PRODUCTION
\* behind the REDUCE of E had set, and the engine has production 7
C38_Witness ==
    /\ image = "LIST"
    /\ Len(out) >= 2
    /\ LastOut.type = "REDUCE"
    /\ LastOut.body = 5
    /\ LastOut.production = 2
    /\ Root.production_id = 7
    /\ \E k \in 1..(Len(out) - 1) :
          /\ out[k].type = "REDUCE"
          /\ out[k].body = 3
          /\ out[k].production # 2

\* ------------------------------------------------ cursor and lookahead

\* the engine the caller started stands between two blocks, in parser
\* role, with the two live tokens only
AtBlockBoundary ==
    /\ status = "running"
    /\ Depth = 1
    /\ ~Root.SCANNER
    /\ Root.pc = "loop"
    /\ Len(Root.tokens) = 2

\* C39 (as stated): at every block boundary of a parser-role run at which
\* the list holds two tokens, the cursor of the engine's reader is on the
\* byte offset of the lookahead.
C39_Original == AtBlockBoundary => Root.cursor = Lookahead.byte_offset

\* the input holds no character the scanner region skips
NothingToSkip == \A i \in 1..Len(input) : input[i] # CH_nl

\* what the code keeps: the same in the runs in which the scanner skips
\* nothing, of the images that neither peek nor scan ahead (consumes, and
\* scanner resolutions without skipped input, move cursor and lookahead by
\* the same length)
C39_InStepWithoutSkip ==
    (AtBlockBoundary /\ NothingToSkip /\ image \in { "XY_ASSERT", "XY_INDEX", "LIST", "RECOVER" })
        => Root.cursor = Lookahead.byte_offset

\* IMG_LIST on the input newline x: the scanner skipped the newline on its
\* clone of the reader and put the lookahead on the x at offset 1; after
\* the consume of x the lookahead is at the end of the input, offset 2, and
\* the reader, moved by the length of x, at offset 1
C39_CursorBehindLookahead ==
    /\ image = "LIST"
    /\ input = << CH_nl, CH_x >>
    /\ AtBlockBoundary
    /\ Len(out) >= 1
    /\ out[Len(out)].type = "SHIFT"
    /\ Lookahead.byte_offset = 2
    /\ Root.cursor = 1

\* ------------------------------------------------- the transport events

\* update has been called with t
Handled(t) == status = "transport" /\ transport.last.t = t

\* C40 (as stated): one TransportHandler_stepInstruction event calls step
\* exactly once, with step_to_next_action false, and leaves allow_play as it
\* was; one TransportHandler_stepAction event calls step exactly once and
\* does not invert allow_play
C40_Original ==
    /\ Handled("TransportHandler_stepInstruction") =>
           /\ transport.last.calls = << FALSE >>
           /\ transport.last.toggles = 0
           /\ transport.allow_play = transport.last.allow_play
    /\ Handled("TransportHandler_stepAction") =>
           /\ Len(transport.last.calls) = 1
           /\ transport.last.toggles = 0

\* what the code does: the cases of the two events have no break, so that
\* the call for stepInstruction goes on through the cases of stepAction,
\* togglePlay, step and play: step is called with step_to_next_action false
\* and then with it true, allow_play is inverted once, and the case of play
\* clears it, PARSING being false; the call for stepAction does the same
\* from its own case on
C40_RunsIntoTheCasesBelow ==
    /\ Handled("TransportHandler_stepInstruction") =>
           /\ transport.last.calls = << FALSE, TRUE >>
           /\ transport.last.toggles = 1
    /\ Handled("TransportHandler_stepAction") =>
           /\ transport.last.calls = << TRUE >>
           /\ transport.last.toggles = 1
    /\ (Handled("TransportHandler_stepInstruction") \/ Handled("TransportHandler_stepAction")) =>
           /\ ~transport.allow_play
           /\ ~transport.step_to_next_action
           /\ transport.last.returned = base_return
           /\ ~transport.last.allow_play => "TransportHandler_play" \in transport.pending

\* a click on step with a live parser: two steps of the parser were taken,
\* the second one up to the next action, and a TransportHandler_play is on
\* its way
C40_SteppedTwice ==
    /\ Handled("TransportHandler_stepInstruction")
    /\ transport.parser.live
    /\ transport.last.calls = << FALSE, TRUE >>
    /\ transport.debugger_steps = << "ExecuteInstruction", "ExecuteInstruction", "Shift" >>
    /\ transport.debugger_offset = 2
    /\ "TransportHandler_play" \in transport.pending

====
